---- MODULE Spec2Model ----
(***************************************************************************)
(* Model of the debugger subsystem of BackseatSafeSystem2k                 *)
(* (src/src/debugger.rs): the DebugHandle that lives in the execution      *)
(* thread, the Debugger worker thread, the two bounded channels between    *)
(* them, and the part of the processor the handle observes.                *)
(***************************************************************************)
EXTENDS Integers, Sequences, FiniteSets, TLC

(***************************************************************************)
(* Bounds of the model (not program constants).                            *)
(***************************************************************************)
\* number of IDE requests the worker reads from the TCP client in one run
MaxRequests == 3
\* value the IDE writes with SetRegister
RegValue == 5
\* number of calls of execute_next_instruction in a run of the processor
MaxSteps == 6
\* number of writes to the memory in a run of the memory on its own
MaxWrites == 2
\* number of read and clear calls on a SegmentedReader
MaxReads == 3
\* number of polls of a TcpHandler
MaxPolls == 4
\* number of stores of a program into the terminal region
MaxStores == 2

(***************************************************************************)
(* Program constants.                                                      *)
(***************************************************************************)
CHANNEL_BOUND == 100
WORD_SIZE == 4
INSTRUCTION_SIZE == 8
TERMINAL_WIDTH == 80
TERMINAL_HEIGHT == 25
DISPLAY_WIDTH == 480
DISPLAY_HEIGHT == (DISPLAY_WIDTH \div 4) * 3
NUM_REGISTERS == 256
FLAGS == NUM_REGISTERS - 3
INSTRUCTION_POINTER == NUM_REGISTERS - 2
STACK_POINTER == NUM_REGISTERS - 1

TERMINAL_BUFFER_START == 0
TERMINAL_BUFFER_SIZE == TERMINAL_WIDTH * TERMINAL_HEIGHT
FRAMEBUFFER_SIZE == DISPLAY_WIDTH * DISPLAY_HEIGHT * 4
FIRST_FRAMEBUFFER_START == TERMINAL_BUFFER_START + TERMINAL_BUFFER_SIZE + 2 * WORD_SIZE
SECOND_FRAMEBUFFER_START == FIRST_FRAMEBUFFER_START + FRAMEBUFFER_SIZE
STACK_START == SECOND_FRAMEBUFFER_START + FRAMEBUFFER_SIZE
STACK_SIZE == 512 * 1024
ENTRY_POINT == STACK_START + STACK_SIZE

\* opcode numbers of the opcodes! table used by the loaded ROM
OP_MoveTargetSource == 2
OP_CallAddress == 23
OP_Return == 24
OP_JumpImmediate == 25

(***************************************************************************)
(* Words.  A Word is a 32-bit unsigned value; a word w < 2^31 is kept as   *)
(* w and a word w >= 2^31 as w - 2^32, so that Word::MAX is -1.  Halfwords *)
(* and bytes are taken with floor division, so they are those of the       *)
(* unsigned value.                                                         *)
(***************************************************************************)
\* Word::BITS
WORD_BITS == 32
\* number of values of a Halfword
HALF == 2 ^ 16
\* Word::MAX
WORD_MAX == 0 - 1

\* AsHalfwords::as_halfwords: the upper and the lower halfword of a word
Hi(w) == (w \div HALF) % HALF
Lo(w) == w % HALF

\* the word made of two halfwords
FromHalfwords(hi, lo) ==
    IF hi >= HALF \div 2 THEN (hi - HALF) * HALF + lo ELSE hi * HALF + lo

\* the bytes of a word, most significant first (to_be_bytes)
to_be_bytes(w) == << Hi(w) \div 256, Hi(w) % 256, Lo(w) \div 256, Lo(w) % 256 >>

\* the word made of four bytes, most significant first (from_be_bytes)
from_be_bytes(b) == FromHalfwords(b[1] * 256 + b[2], b[3] * 256 + b[4])

\* The exact value of a word as a natural number of four digits of base
\* 2^16, least significant first (`as u64`); sums, differences and products
\* of words are exact in this form.
Digits(w) == << Lo(w), Hi(w), 0, 0 >>

\* carry propagation: the lower three digits are brought into 0..HALF-1, the
\* last digit takes what is left (it is negative for a negative number)
Normalize(d) ==
    LET d2 == d[2] + d[1] \div HALF
        d3 == d[3] + d2 \div HALF
        d4 == d[4] + d3 \div HALF
    IN  << d[1] % HALF, d2 % HALF, d3 % HALF, d4 >>

Sum(x, y) == Normalize([i \in 1..4 |-> x[i] + y[i]])

Difference(x, y) == Normalize([i \in 1..4 |-> x[i] - y[i]])

\* the exact product of two halfwords as << low digit, high digit >>
HalfProduct(a, b) ==
    LET p == (a % 256) * b
        q == (a \div 256) * b
        l == p + (q % 256) * 256
    IN  << l % HALF, q \div 256 + l \div HALF >>

\* the exact 64-bit product of two words
Product(a, b) ==
    LET ll == HalfProduct(Lo(a), Lo(b))
        lh == HalfProduct(Lo(a), Hi(b))
        hl == HalfProduct(Hi(a), Lo(b))
        hh == HalfProduct(Hi(a), Hi(b))
    IN  Normalize(<< ll[1], ll[2] + lh[1] + hl[1], lh[2] + hl[2] + hh[1], hh[2] >>)

\* 2^s as a word, for s in 0..31
PowerOfTwo(s) == IF s = WORD_BITS - 1 THEN (0 - 2147483647) - 1 ELSE 2 ^ s

\* w * 2^s exactly, for a word w and s in 0..32
ShiftLeft(w, s) ==
    IF s = WORD_BITS THEN << 0, 0, Lo(w), Hi(w) >> ELSE Product(w, PowerOfTwo(s))

\* floor(w / 2^s) for a word w and s in 0..32
ShiftRight(w, s) ==
    IF s >= WORD_BITS THEN 0
    ELSE IF s >= 16 THEN Hi(w) \div 2 ^ (s - 16)
    ELSE FromHalfwords(Hi(w) \div 2 ^ s,
                       (Lo(w) \div 2 ^ s) + (Hi(w) % 2 ^ s) * 2 ^ (16 - s))

\* `as u32`: the low 32 bits, and the bits 63..32
Truncate(x) == FromHalfwords(x[2], x[1])
High(x) == FromHalfwords(x[4] % HALF, x[3])

\* u32::overflowing_add, overflowing_sub, wrapping_add, wrapping_sub
overflowing_add(a, b) ==
    LET s == Sum(Digits(a), Digits(b))
    IN  [result |-> Truncate(s), overflow |-> s[3] # 0]

overflowing_sub(a, b) ==
    LET d == Difference(Digits(a), Digits(b))
    IN  [result |-> Truncate(d), overflow |-> d[4] < 0]

wrapping_add(a, b) == overflowing_add(a, b).result

wrapping_sub(a, b) == overflowing_sub(a, b).result

\* u32 comparison: a < b
less(a, b) == Hi(a) < Hi(b) \/ (Hi(a) = Hi(b) /\ Lo(a) < Lo(b))

\* bit i (0 = least significant) of a word
Bit(w, i) ==
    IF i < 16 THEN (Lo(w) \div 2 ^ i) % 2 = 1 ELSE (Hi(w) \div 2 ^ (i - 16)) % 2 = 1

\* u32::leading_zeros, u32::trailing_zeros
leading_zeros(w) ==
    IF w = 0 THEN WORD_BITS
    ELSE WORD_BITS - 1 - CHOOSE i \in 0..(WORD_BITS - 1) :
                             Bit(w, i) /\ \A j \in (i + 1)..(WORD_BITS - 1) : ~Bit(w, j)

trailing_zeros(w) ==
    IF w = 0 THEN WORD_BITS
    ELSE CHOOSE i \in 0..(WORD_BITS - 1) : Bit(w, i) /\ \A j \in 0..(i - 1) : ~Bit(w, j)

\* `lhs << rhs` and `lhs >> rhs` on u32 where they do not panic: the shift
\* amount is taken modulo 32 (wrapping_shl, wrapping_shr)
wrapping_shl(lhs, rhs) == Truncate(ShiftLeft(lhs, rhs % WORD_BITS))

wrapping_shr(lhs, rhs) == ShiftRight(lhs, rhs % WORD_BITS)

\* u32 `/` and `%` for a divisor other than 0.  A divisor of 2^31 or more
\* goes into a at most once; a dividend of 2^31 or more is divided as the sum
\* of 2^31 and the rest, so that no intermediate value leaves 32 bits.
divide(a, b) ==
    IF b < 0
    THEN IF less(a, b) THEN [quotient |-> 0, remainder |-> a]
         ELSE [quotient |-> 1, remainder |-> wrapping_sub(a, b)]
    ELSE IF a >= 0 THEN [quotient |-> a \div b, remainder |-> a % b]
    ELSE IF b = 1 THEN [quotient |-> a, remainder |-> 0]
    ELSE LET rest == (a + 2147483647) + 1
             exact == (2147483647 % b) + 1 = b
             q1 == (2147483647 \div b) + (IF exact THEN 1 ELSE 0)
             r1 == IF exact THEN 0 ELSE (2147483647 % b) + 1
             q2 == rest \div b
             r2 == rest % b
             carry == r1 >= b - r2
         IN  [quotient |-> q1 + q2 + (IF carry THEN 1 ELSE 0),
              remainder |-> IF carry THEN r1 - (b - r2) ELSE r1 + r2]

\* a & b for two halfwords, bit by bit
RECURSIVE and_bits(_, _)
and_bits(a, b) ==
    IF a = 0 \/ b = 0 THEN 0
    ELSE (a % 2) * (b % 2) + 2 * and_bits(a \div 2, b \div 2)

\* u32 `&`, `|`, `^` and `!`, halfword by halfword
bitand(a, b) == FromHalfwords(and_bits(Hi(a), Hi(b)), and_bits(Lo(a), Lo(b)))

bitor(a, b) ==
    FromHalfwords(Hi(a) + Hi(b) - and_bits(Hi(a), Hi(b)),
                  Lo(a) + Lo(b) - and_bits(Lo(a), Lo(b)))

bitxor(a, b) ==
    FromHalfwords(Hi(a) + Hi(b) - 2 * and_bits(Hi(a), Hi(b)),
                  Lo(a) + Lo(b) - 2 * and_bits(Lo(a), Lo(b)))

bitnot(a) == FromHalfwords(HALF - 1 - Hi(a), HALF - 1 - Lo(a))

(***************************************************************************)
(* Instruction encoding.  An instruction is the big-endian concatenation   *)
(* of two memory words: the high word holds the 16-bit opcode and the      *)
(* first two register bytes, the low word the remaining register bytes or  *)
(* the immediate/address.                                                  *)
(***************************************************************************)
as_instruction_FirstRegister(code, r0, r1, low) ==
    << FromHalfwords(code, r0 * 256), low >>

\* Opcode::as_instruction, as the pair <<high word, low word>>
as_instruction(code, r0, r1, low) == << FromHalfwords(code, r0 * 256 + r1), low >>

\* The rows of the opcodes! table: name, 16-bit code,
\* number of register operands, whether an immediate/address follows, and
\* Increment::Yes / Increment::No
OpcodeRow(op, code, nregs, operand, increment) ==
    [op |-> op, code |-> code, registers |-> nregs, operand |-> operand,
     increment |-> increment]

OpcodeTable ==
    {OpcodeRow("MoveRegisterImmediate", 0, 1, TRUE, TRUE),
      OpcodeRow("MoveRegisterAddress", 1, 1, TRUE, TRUE),
      OpcodeRow("MoveTargetSource", 2, 2, FALSE, TRUE),
      OpcodeRow("MoveAddressRegister", 3, 1, TRUE, TRUE),
      OpcodeRow("MoveTargetPointer", 4, 2, FALSE, TRUE),
      OpcodeRow("MovePointerSource", 5, 2, FALSE, TRUE),
      OpcodeRow("MoveByteRegisterAddress", 65, 1, TRUE, TRUE),
      OpcodeRow("MoveByteAddressRegister", 66, 1, TRUE, TRUE),
      OpcodeRow("MoveByteTargetPointer", 67, 2, FALSE, TRUE),
      OpcodeRow("MoveBytePointerSource", 68, 2, FALSE, TRUE),
      OpcodeRow("MoveHalfwordRegisterAddress", 69, 1, TRUE, TRUE),
      OpcodeRow("MoveHalfwordAddressRegister", 70, 1, TRUE, TRUE),
      OpcodeRow("MoveHalfwordTargetPointer", 71, 2, FALSE, TRUE),
      OpcodeRow("MoveHalfwordPointerSource", 72, 2, FALSE, TRUE),
      OpcodeRow("MovePointerSourceOffset", 73, 2, TRUE, TRUE),
      OpcodeRow("MoveBytePointerSourceOffset", 74, 2, TRUE, TRUE),
      OpcodeRow("MoveHalfwordPointerSourceOffset", 75, 2, TRUE, TRUE),
      OpcodeRow("MoveTargetPointerOffset", 76, 2, TRUE, TRUE),
      OpcodeRow("MoveByteTargetPointerOffset", 77, 2, TRUE, TRUE),
      OpcodeRow("MoveHalfwordTargetPointerOffset", 78, 2, TRUE, TRUE),
      OpcodeRow("HaltAndCatchFire", 6, 0, FALSE, FALSE),
      OpcodeRow("AddTargetLhsRhs", 7, 3, FALSE, TRUE),
      OpcodeRow("AddWithCarryTargetLhsRhs", 52, 3, FALSE, TRUE),
      OpcodeRow("SubtractTargetLhsRhs", 8, 3, FALSE, TRUE),
      OpcodeRow("SubtractWithCarryTargetLhsRhs", 9, 3, FALSE, TRUE),
      OpcodeRow("MultiplyHighLowLhsRhs", 10, 4, FALSE, TRUE),
      OpcodeRow("DivmodTargetModLhsRhs", 11, 4, FALSE, TRUE),
      OpcodeRow("AndTargetLhsRhs", 12, 3, FALSE, TRUE),
      OpcodeRow("OrTargetLhsRhs", 13, 3, FALSE, TRUE),
      OpcodeRow("XorTargetLhsRhs", 14, 3, FALSE, TRUE),
      OpcodeRow("NotTargetSource", 15, 2, FALSE, TRUE),
      OpcodeRow("LeftShiftTargetLhsRhs", 16, 3, FALSE, TRUE),
      OpcodeRow("RightShiftTargetLhsRhs", 17, 3, FALSE, TRUE),
      OpcodeRow("AddTargetSourceImmediate", 18, 2, TRUE, TRUE),
      OpcodeRow("SubtractTargetSourceImmediate", 19, 2, TRUE, TRUE),
      OpcodeRow("CompareTargetLhsRhs", 20, 3, FALSE, TRUE),
      OpcodeRow("BoolCompareEquals", 58, 3, FALSE, TRUE),
      OpcodeRow("BoolCompareNotEquals", 59, 3, FALSE, TRUE),
      OpcodeRow("BoolCompareGreater", 60, 3, FALSE, TRUE),
      OpcodeRow("BoolCompareGreaterOrEquals", 61, 3, FALSE, TRUE),
      OpcodeRow("BoolCompareLess", 62, 3, FALSE, TRUE),
      OpcodeRow("BoolCompareLessOrEquals", 63, 3, FALSE, TRUE),
      OpcodeRow("PushRegister", 21, 1, FALSE, TRUE),
      OpcodeRow("PopRegister", 22, 1, FALSE, TRUE),
      OpcodeRow("Pop", 64, 0, FALSE, TRUE),
      OpcodeRow("CallAddress", 23, 0, TRUE, FALSE),
      OpcodeRow("CallRegister", 54, 1, FALSE, FALSE),
      OpcodeRow("CallPointer", 55, 1, FALSE, FALSE),
      OpcodeRow("Return", 24, 0, FALSE, FALSE),
      OpcodeRow("JumpImmediate", 25, 0, TRUE, FALSE),
      OpcodeRow("JumpRegister", 26, 1, FALSE, FALSE),
      OpcodeRow("JumpImmediateIfEqual", 27, 1, TRUE, FALSE),
      OpcodeRow("JumpImmediateIfGreaterThan", 28, 1, TRUE, FALSE),
      OpcodeRow("JumpImmediateIfLessThan", 29, 1, TRUE, FALSE),
      OpcodeRow("JumpImmediateIfGreaterThanOrEqual", 30, 1, TRUE, FALSE),
      OpcodeRow("JumpImmediateIfLessThanOrEqual", 31, 1, TRUE, FALSE),
      OpcodeRow("JumpImmediateIfZero", 32, 0, TRUE, FALSE),
      OpcodeRow("JumpImmediateIfNotZero", 33, 0, TRUE, FALSE),
      OpcodeRow("JumpImmediateIfCarry", 34, 0, TRUE, FALSE),
      OpcodeRow("JumpImmediateIfNotCarry", 35, 0, TRUE, FALSE),
      OpcodeRow("JumpImmediateIfDivideByZero", 36, 0, TRUE, FALSE),
      OpcodeRow("JumpImmediateIfNotDivideByZero", 37, 0, TRUE, FALSE),
      OpcodeRow("JumpRegisterIfEqual", 38, 2, FALSE, FALSE),
      OpcodeRow("JumpRegisterIfGreaterThan", 39, 2, FALSE, FALSE),
      OpcodeRow("JumpRegisterIfLessThan", 40, 2, FALSE, FALSE),
      OpcodeRow("JumpRegisterIfGreaterThanOrEqual", 41, 2, FALSE, FALSE),
      OpcodeRow("JumpRegisterIfLessThanOrEqual", 42, 2, FALSE, FALSE),
      OpcodeRow("JumpRegisterIfZero", 43, 1, FALSE, FALSE),
      OpcodeRow("JumpRegisterIfNotZero", 44, 1, FALSE, FALSE),
      OpcodeRow("JumpRegisterIfCarry", 45, 1, FALSE, FALSE),
      OpcodeRow("JumpRegisterIfNotCarry", 46, 1, FALSE, FALSE),
      OpcodeRow("JumpRegisterIfDivideByZero", 47, 1, FALSE, FALSE),
      OpcodeRow("JumpRegisterIfNotDivideByZero", 48, 1, FALSE, FALSE),
      OpcodeRow("NoOp", 49, 0, FALSE, TRUE),
      OpcodeRow("GetKeyState", 50, 2, FALSE, TRUE),
      OpcodeRow("PollTime", 51, 2, FALSE, TRUE),
      OpcodeRow("SwapFramebuffers", 53, 0, FALSE, TRUE),
      OpcodeRow("InvisibleFramebufferAddress", 56, 1, FALSE, TRUE),
      OpcodeRow("PollCycleCountHighLow", 57, 2, FALSE, TRUE),
      OpcodeRow("DumpRegisters", 65535, 0, FALSE, TRUE),
      OpcodeRow("DumpMemory", 65534, 0, FALSE, TRUE),
      OpcodeRow("AssertRegisterRegister", 65533, 2, FALSE, TRUE),
      OpcodeRow("AssertRegisterImmediate", 65532, 1, TRUE, TRUE),
      OpcodeRow("AssertPointerImmediate", 65531, 1, TRUE, TRUE),
      OpcodeRow("DebugBreak", 65530, 0, FALSE, TRUE),
      OpcodeRow("PrintRegister", 65529, 1, FALSE, TRUE),
      OpcodeRow("Checkpoint", 65528, 0, TRUE, TRUE) }

\* the rows of the table by name and by code
RowByName == [op \in { row.op : row \in OpcodeTable } |->
                 CHOOSE row \in OpcodeTable : row.op = op]

RowByCode == [code \in { row.code : row \in OpcodeTable } |->
                 CHOOSE row \in OpcodeTable : row.code = code]

\* the row of the table with the given name
Row(op) == RowByName[op]

\* a decoded Opcode value: the operands its variant does not have are 0
Opcode(op, r0, r1, r2, r3, immediate) ==
    [ok |-> TRUE, op |-> op, r0 |-> r0, r1 |-> r1, r2 |-> r2, r3 |-> r3,
     immediate |-> immediate]

InvalidOpcode ==
    [ok |-> FALSE, op |-> "Invalid", r0 |-> 0, r1 |-> 0, r2 |-> 0, r3 |-> 0,
     immediate |-> 0]

\* impl TryFrom<Instruction> for Opcode: the code is the top halfword, the
\* register operands are the bytes after it, the immediate is the low word
OpcodeTryFrom(high, low) ==
    LET code == Hi(high)
        bytes == << to_be_bytes(high)[3], to_be_bytes(high)[4],
                    to_be_bytes(low)[1], to_be_bytes(low)[2] >>
        reg(row, i) == IF i <= row.registers THEN bytes[i] ELSE 0
    IN  IF code \in DOMAIN RowByCode
        THEN LET row == RowByCode[code]
             IN  Opcode(row.op, reg(row, 1), reg(row, 2), reg(row, 3), reg(row, 4),
                        IF row.operand THEN low ELSE 0)
        ELSE InvalidOpcode

\* Opcode::should_increment_instruction_pointer (Increment::Yes / Increment::No)
should_increment_instruction_pointer(op) ==
    op \in DOMAIN RowByName /\ RowByName[op].increment

\* The ROM the driver loads at ENTRY_POINT:
\*   E+0   move r1 <- r0
\*   E+8   call E+24
\*   E+16  jump E+0
\*   E+24  return
Rom ==
    << as_instruction(OP_MoveTargetSource, 1, 0, 0),
       as_instruction(OP_CallAddress, 0, 0, ENTRY_POINT + 3 * INSTRUCTION_SIZE),
       as_instruction(OP_JumpImmediate, 0, 0, ENTRY_POINT),
       as_instruction(OP_Return, 0, 0, 0) >>

RomAddresses == { ENTRY_POINT + INSTRUCTION_SIZE * (i - 1) : i \in 1..Len(Rom) }

\* word addresses the model keeps: the ROM and the first stack cell
MemAddresses ==
    { a + d : a \in RomAddresses, d \in {0, WORD_SIZE} } \cup {STACK_START}

\* write_buffer: memory after the ROM was copied to ENTRY_POINT
LoadedMemory ==
    [a \in MemAddresses |->
        IF a = STACK_START THEN 0
        ELSE LET i == (a - ENTRY_POINT) \div INSTRUCTION_SIZE + 1
                 w == IF (a - ENTRY_POINT) % INSTRUCTION_SIZE = 0 THEN 1 ELSE 2
             IN  Rom[i][w]]

\* registers the ROM and the debugger touch
RegisterSet == {0, 1, FLAGS, INSTRUCTION_POINTER, STACK_POINTER}

VARIABLES
    \* DebugHandle; attached: sender and receiver are Some (not the dummy handle)
    attached,
    state, breakpoints, receive_cache, should_pause, call_stack,
    did_execute_last_cycle,
    \* execution thread: position inside before_instruction_execution and the
    \* message start_breaking_if_requested / the Breaking branch still sends
    hpc, instruction_pointer, break_message,
    \* Processor and Memory
    registers, memory,
    \* Processor (cycle_count), InstructionCache, Machine (is_halted), and the
    \* result of the last execution step
    cpu,
    \* channels: handle -> worker (DebugMessage), worker -> handle (DebugCommand)
    toWorker, toHandle,
    \* Debugger (worker thread)
    started, start_notifications, wpc, should_terminate,
    \* IDE: serial number of the last request read, requests still to come
    reqNo, reqLeft,
    \* history of the current call of before_instruction_execution
    call,
    \* history of the run
    hist

vars == << attached, state, breakpoints, receive_cache, should_pause, call_stack,
           did_execute_last_cycle, hpc, instruction_pointer, break_message,
           registers, memory, cpu,
           toWorker, toHandle, started, start_notifications, wpc,
           should_terminate, reqNo, reqLeft, call, hist >>

handleVars == << attached, state, breakpoints, receive_cache, should_pause, call_stack,
                 did_execute_last_cycle >>
machineVars == << registers, memory >>
workerVars == << started, start_notifications, wpc, should_terminate >>
ideVars == << reqNo, reqLeft >>

(***************************************************************************)
(* Messages.                                                               *)
(***************************************************************************)
\* lists of addresses the IDE names in SetBreakpoints / RemoveBreakpoints
BreakpointLists ==
    { <<ENTRY_POINT>>, <<ENTRY_POINT + INSTRUCTION_SIZE, ENTRY_POINT>> }

\* tcp_protocol::Request
Request(type, stop, locs, reg, val) ==
    [type |-> type, stop_on_entry |-> stop, locations |-> locs,
     register |-> reg, value |-> val]

Requests ==
    { Request("StartExecution", b, <<>>, 0, 0) : b \in BOOLEAN }
    \cup { Request("SetBreakpoints", FALSE, l, 0, 0) : l \in BreakpointLists }
    \cup { Request("RemoveBreakpoints", FALSE, l, 0, 0) : l \in BreakpointLists }
    \cup { Request(t, FALSE, <<>>, 0, 0) : t \in {"Continue", "StepOne", "Terminate"} }
    \cup { Request("SetRegister", FALSE, <<>>, 0, RegValue) }

\* enum DebugCommand; n is the serial number of the request it was made from
DebugCommand(type, n, locs, reg, val) ==
    [type |-> type, n |-> n, locations |-> locs, register |-> reg, value |-> val]

\* enum DebugMessage
DebugMessage(type, loc, regs, cs) ==
    [type |-> type, location |-> loc, registers |-> regs, call_stack |-> cs]

NoRegisters == [r \in RegisterSet |-> 0]

NoMessage == DebugMessage("None", 0, NoRegisters, <<>>)

BreakStateMessage_Empty == DebugMessage("BreakState", 0, NoRegisters, call_stack)

\* DebugMessage::BreakState { registers, call_stack } as send_break_state makes it
BreakStateMessage == DebugMessage("BreakState", 0, registers, call_stack)

Range(s) == { s[i] : i \in 1..Len(s) }

(***************************************************************************)
(* Initial state: start_debugger() has returned the handle, the worker     *)
(* thread is in its select loop, Machine::new and write_buffer have run.   *)
(***************************************************************************)
NewCall == [start_state |-> "None", hit |-> FALSE, entered_break |-> FALSE,
            consumed |-> "None", sent |-> <<>>]

NewHist == [executed |-> FALSE, ever_broke |-> FALSE,
            last_sent |-> NoMessage,
            last_exec |-> 0, last_exec_increment |-> FALSE,
            pending_set |-> 0,
            last_acted |-> 0, cleared |-> FALSE, forwarded |-> {},
            bp_sent |-> {}, dropped |-> 0,
            stop_requested |-> FALSE, pause_forwarded |-> FALSE,
            terminate_in_break |-> FALSE, stale |-> {}]

InitHandle ==
    /\ attached = TRUE
    /\ state = "WaitingForStart"
    /\ breakpoints = {}
    /\ receive_cache = <<>>
    /\ should_pause = FALSE
    /\ call_stack = <<>>
    /\ did_execute_last_cycle = TRUE
    /\ hpc = "call"
    /\ instruction_pointer = 0
    /\ break_message = NoMessage

\* Processor::new, InstructionCache and Machine before the first step
\* history of the last executed instruction: the opcode, the registers and
\* the top of the shadow of the stack before it ran
NoEntry == [value |-> 0, sp |-> 0, call |-> FALSE, at |-> 0]

\* an opcode on its way through as_instruction and try_from: none so far
NoCodec == [stage |-> "none", opcode |-> InvalidOpcode, instruction |-> << 0, 0 >>,
            decoded |-> InvalidOpcode]

\* the last access to the memory and the memory before it: none so far
NoAccess == [kind |-> "none", address |-> 0, value |-> 0, before |-> <<>>, got |-> 0]

\* the SegmentedReader of the TCP handler and its history: none so far
NoSession == [stage |-> "none"]

NoLast == [o |-> InvalidOpcode, registers |-> <<>>, top |-> NoEntry, depth |-> 0,
           clean |-> TRUE, was_halted |-> FALSE]

NewCpu(exit_on_halt, debug_assertions) ==
    [cycle_count |-> 0, cache |-> <<>>, is_halted |-> FALSE, result |-> "Normal",
     exit_on_halt |-> exit_on_halt, debug_assertions |-> debug_assertions,
     first_framebuffer_visible |-> TRUE,
     steps |-> 0, last |-> NoLast, shadow |-> <<>>, clean |-> TRUE, swaps |-> 0,
     calls |-> <<>>, first |-> <<>>,
     codec |-> NoCodec, access |-> NoAccess, session |-> NoSession]

InitMachine ==
    /\ cpu = NewCpu(FALSE, TRUE)
    /\ registers = [r \in RegisterSet |->
                      CASE r = INSTRUCTION_POINTER -> ENTRY_POINT
                        [] r = STACK_POINTER -> STACK_START
                        [] OTHER -> 0]
    /\ memory = LoadedMemory

InitWorker ==
    /\ started = FALSE
    /\ start_notifications = 0
    /\ wpc = "select"
    /\ should_terminate = FALSE

Init ==
    /\ InitHandle
    /\ InitMachine
    /\ InitWorker
    /\ toWorker = <<>>
    /\ toHandle = <<>>
    /\ reqNo = 0
    /\ reqLeft = MaxRequests
    /\ call = NewCall
    /\ hist = NewHist

(***************************************************************************)
(* Processor: the executors of the opcodes in the ROM.                     *)
(***************************************************************************)
\* Memory: a word is kept under the byte address of its first byte; a word
\* that was never written is 0 (vec![0; SIZE]).  An address of 2^31 or more
\* is a negative number here and lies outside the memory.
MEMORY_SIZE == 16 * 1024 * 1024

\* Memory::address_to_word_index: the index, as the byte address of the word
address_to_word_index(address) == (address \div WORD_SIZE) * WORD_SIZE

\* the debug_assert! of address_to_word_index holds (or is compiled out) and
\* the index lies inside self.data
word_access_ok(address, debug_assertions) ==
    /\ debug_assertions => address % WORD_SIZE = 0
    /\ address >= 0
    /\ address \div WORD_SIZE < MEMORY_SIZE

\* Memory::read_data
read_data(mem, address) ==
    LET k == address_to_word_index(address)
    IN  IF k \in DOMAIN mem THEN mem[k] ELSE 0

\* Memory::write_data
write_data(mem, address, data) ==
    LET k == address_to_word_index(address)
    IN  IF k \in DOMAIN mem THEN [mem EXCEPT ![k] = data] ELSE (k :> data) @@ mem

\* the debug_assert! of read_instruction holds (or is compiled out) and the
\* two words lie inside self.data
instruction_access_ok(address, debug_assertions) ==
    /\ debug_assertions => address % INSTRUCTION_SIZE = 0
    /\ address >= 0
    /\ address \div WORD_SIZE + 1 < MEMORY_SIZE

\* Memory::read_opcode: decode the instruction made of the words at a, a + 4
read_opcode(mem, a) ==
    OpcodeTryFrom(read_data(mem, a), read_data(mem, a + WORD_SIZE))

\* Memory::read_instruction: the words at address and address + 4, most
\* significant first (an instruction is the pair << high word, low word >>)
read_instruction(mem, address) ==
    << read_data(mem, address), read_data(mem, address + WORD_SIZE) >>

write_instruction_Forwards(mem, address, instruction) ==
    write_data(write_data(mem, address, instruction[2]),
               address + WORD_SIZE, instruction[1])

\* Memory::write_instruction: the low word goes to the second cell, then the
\* high word to the first
write_instruction(mem, address, instruction) ==
    write_data(write_data(mem, address + WORD_SIZE, instruction[2]),
               address, instruction[1])

\* byte and halfword accessors: big-endian cells inside the word that holds
\* them; a halfword starts at an even address
byte_access_ok(address) ==
    /\ address >= 0
    /\ address \div WORD_SIZE < MEMORY_SIZE

halfword_access_ok(address, debug_assertions) ==
    /\ debug_assertions => address % 2 = 0
    /\ address >= 0
    /\ address \div WORD_SIZE < MEMORY_SIZE

read_byte(mem, address) ==
    to_be_bytes(read_data(mem, address))[(address % WORD_SIZE) + 1]

write_byte(mem, address, byte) ==
    write_data(mem, address,
               from_be_bytes([to_be_bytes(read_data(mem, address))
                                 EXCEPT ![(address % WORD_SIZE) + 1] = byte]))

read_halfword(mem, address) ==
    IF address % WORD_SIZE < 2 THEN Hi(read_data(mem, address))
    ELSE Lo(read_data(mem, address))

write_halfword(mem, address, halfword) ==
    LET old == read_data(mem, address)
    IN  write_data(mem, address,
                   IF address % WORD_SIZE < 2 THEN FromHalfwords(halfword, Lo(old))
                   ELSE FromHalfwords(Hi(old), halfword))

\* the bits of define_flags!
Zero == 1
Carry == 2
DivideByZero == 4

\* the state an executor works on: Processor, Memory and the display of the
\* periphery (DisplayImplementation::new), and how it ended ("Normal",
\* "Halted", "Panic" or "Exit")
ProcessorState(regs, mem, cycles) ==
    [registers |-> regs, memory |-> mem, cycle_count |-> cycles, result |-> "Normal",
     first_framebuffer_visible |-> TRUE]

Running(p) == p.result = "Normal"

Panic(p) == [p EXCEPT !.result = "Panic"]

\* processor.registers[register] = value
set_register(p, register, value) ==
    IF Running(p) THEN [p EXCEPT !.registers[register] = value] ELSE p

\* Processor::get_flag
get_flag(regs, flag) == (regs[FLAGS] \div flag) % 2 = 1

set_flag_Wipe(p, flag, set) ==
    IF ~Running(p) THEN p
    ELSE [p EXCEPT !.registers[FLAGS] = IF set THEN flag ELSE 0]

\* Processor::set_flag: Flag::from_bits is None when a bit outside the
\* defined flags is set, and expect() panics
set_flag(p, flag, set) ==
    IF ~Running(p) THEN p
    ELSE LET bits == p.registers[FLAGS]
             has == (bits \div flag) % 2 = 1
         IN  IF bits \notin 0..(2 * DivideByZero - 1) THEN Panic(p)
             ELSE [p EXCEPT !.registers[FLAGS] =
                       IF set THEN (IF has THEN bits ELSE bits + flag)
                       ELSE (IF has THEN bits - flag ELSE bits)]

\* Processor::set_stack_pointer
set_stack_pointer(p, address, debug_assertions) ==
    IF ~Running(p) THEN p
    ELSE IF debug_assertions /\ address \notin STACK_START..(STACK_START + STACK_SIZE)
    THEN Panic(p)
    ELSE [p EXCEPT !.registers[STACK_POINTER] = address]

stack_push_AdvanceFirst(p, value, debug_assertions) ==
    LET sp == p.registers[STACK_POINTER] + WORD_SIZE
    IN  IF ~Running(p) THEN p
        ELSE IF ~word_access_ok(sp, debug_assertions) THEN Panic(p)
        ELSE set_stack_pointer([p EXCEPT !.memory = write_data(@, sp, value)],
                               sp, debug_assertions)

\* Processor::stack_push: write at the stack pointer, then advance it
stack_push(p, value, debug_assertions) ==
    LET sp == p.registers[STACK_POINTER]
    IN  IF ~Running(p) THEN p
        ELSE IF ~word_access_ok(sp, debug_assertions) THEN Panic(p)
        ELSE set_stack_pointer([p EXCEPT !.memory = write_data(@, sp, value)],
                               sp + WORD_SIZE, debug_assertions)

\* Processor::stack_pop, the part that moves the stack pointer back and checks
\* the read; the value popped is the word at the new stack pointer.  Below
\* WORD_SIZE the subtraction overflows (a panic with overflow checks, else a
\* wrapped address outside the memory).
stack_pop(p, debug_assertions) ==
    LET sp == p.registers[STACK_POINTER]
    IN  IF ~Running(p) THEN p
        ELSE IF sp \in 0..(WORD_SIZE - 1) THEN Panic(p)
        ELSE LET q == set_stack_pointer(p, sp - WORD_SIZE, debug_assertions)
             IN  IF Running(q) /\ ~word_access_ok(sp - WORD_SIZE, debug_assertions)
                 THEN Panic(q) ELSE q

\* the value stack_pop returns
popped(p) == read_data(p.memory, p.registers[STACK_POINTER])

\* Processor::set_instruction_pointer
set_instruction_pointer(p, address) == set_register(p, INSTRUCTION_POINTER, address)

\* Processor::advance_instruction_pointer(Direction::Forwards)
advance_instruction_pointer(p) ==
    set_instruction_pointer(p, p.registers[INSTRUCTION_POINTER] + INSTRUCTION_SIZE)

push_instruction_pointer_Current(p, debug_assertions) ==
    stack_push(p, p.registers[INSTRUCTION_POINTER], debug_assertions)

\* Processor::push_instruction_pointer
push_instruction_pointer(p, debug_assertions) ==
    stack_push(p, p.registers[INSTRUCTION_POINTER] + INSTRUCTION_SIZE, debug_assertions)

\* handle_cycle_count_and_instruction_pointer: the instruction pointer part
advance_if_needed(regs, op) ==
    IF should_increment_instruction_pointer(op)
    THEN [regs EXCEPT ![INSTRUCTION_POINTER] = @ + INSTRUCTION_SIZE]
    ELSE regs

\* handle_cycle_count_and_instruction_pointer (get_num_cycles is 1 in every
\* row of the table)
handle_cycle_count_and_instruction_pointer(p, op) ==
    IF ~Running(p) THEN p
    ELSE [p EXCEPT !.cycle_count = @ + 1, !.registers = advance_if_needed(@, op)]

\* a conditional jump: match ... { taken => set_instruction_pointer(target),
\* _ => advance_instruction_pointer(Direction::Forwards) }
jump_if(p, taken, target) ==
    IF taken THEN set_instruction_pointer(p, target) ELSE advance_instruction_pointer(p)

ComparisonSets_Sign ==
    [op \in {"JumpImmediateIfGreaterThan", "JumpRegisterIfGreaterThan",
             "JumpImmediateIfLessThan", "JumpRegisterIfLessThan",
             "JumpImmediateIfGreaterThanOrEqual", "JumpRegisterIfGreaterThanOrEqual",
             "JumpImmediateIfLessThanOrEqual", "JumpRegisterIfLessThanOrEqual"} |->
        CASE op \in {"JumpImmediateIfGreaterThan", "JumpRegisterIfGreaterThan"} -> {1, 2}
          [] op \in {"JumpImmediateIfLessThan", "JumpRegisterIfLessThan"} -> {WORD_MAX}
          [] op \in {"JumpImmediateIfGreaterThanOrEqual",
                     "JumpRegisterIfGreaterThanOrEqual"} -> {2, 1, 0}
          [] OTHER -> {WORD_MAX, 0}]

\* the patterns of `match processor.registers[comparison]` that take the jump
ComparisonSets ==
    [op \in {"JumpImmediateIfGreaterThan", "JumpRegisterIfGreaterThan",
             "JumpImmediateIfLessThan", "JumpRegisterIfLessThan",
             "JumpImmediateIfGreaterThanOrEqual", "JumpRegisterIfGreaterThanOrEqual",
             "JumpImmediateIfLessThanOrEqual", "JumpRegisterIfLessThanOrEqual"} |->
        CASE op \in {"JumpImmediateIfGreaterThan", "JumpRegisterIfGreaterThan"} -> {1}
          [] op \in {"JumpImmediateIfLessThan", "JumpRegisterIfLessThan"} -> {WORD_MAX}
          [] op \in {"JumpImmediateIfGreaterThanOrEqual",
                     "JumpRegisterIfGreaterThanOrEqual"} -> {1, 0}
          [] OTHER -> {WORD_MAX, 0}]

\* the flag and the value of `match processor.get_flag(..)` that take the jump
FlagJumps ==
    [op \in {"JumpImmediateIfNotZero", "JumpRegisterIfNotZero",
             "JumpImmediateIfCarry", "JumpRegisterIfCarry",
             "JumpImmediateIfNotCarry", "JumpRegisterIfNotCarry",
             "JumpImmediateIfDivideByZero", "JumpRegisterIfDivideByZero",
             "JumpImmediateIfNotDivideByZero", "JumpRegisterIfNotDivideByZero"} |->
        CASE op \in {"JumpImmediateIfNotZero", "JumpRegisterIfNotZero"} ->
               [flag |-> Zero, set |-> FALSE]
          [] op \in {"JumpImmediateIfCarry", "JumpRegisterIfCarry"} ->
               [flag |-> Carry, set |-> TRUE]
          [] op \in {"JumpImmediateIfNotCarry", "JumpRegisterIfNotCarry"} ->
               [flag |-> Carry, set |-> FALSE]
          [] op \in {"JumpImmediateIfDivideByZero", "JumpRegisterIfDivideByZero"} ->
               [flag |-> DivideByZero, set |-> TRUE]
          [] OTHER -> [flag |-> DivideByZero, set |-> FALSE]]

\* the pointer+offset moves: the width of the cell in bytes, and whether the
\* move stores (pointer first) or loads (target first)
OffsetMoves ==
    [op \in {"MovePointerSourceOffset", "MoveBytePointerSourceOffset",
             "MoveHalfwordPointerSourceOffset", "MoveTargetPointerOffset",
             "MoveByteTargetPointerOffset", "MoveHalfwordTargetPointerOffset"} |->
        [width |-> CASE op \in {"MovePointerSourceOffset", "MoveTargetPointerOffset"} -> 4
                     [] op \in {"MoveHalfwordPointerSourceOffset",
                                "MoveHalfwordTargetPointerOffset"} -> 2
                     [] OTHER -> 1,
         store |-> op \in {"MovePointerSourceOffset", "MoveBytePointerSourceOffset",
                           "MoveHalfwordPointerSourceOffset"}]]

\* the moves to and from a memory cell named by an address or by a pointer
\* register: the width of the cell in bytes, whether the move stores, and
\* whether the address is the immediate
PlainMoves ==
    [op \in {"MoveRegisterAddress", "MoveAddressRegister", "MoveTargetPointer",
             "MovePointerSource", "MoveByteRegisterAddress", "MoveByteAddressRegister",
             "MoveByteTargetPointer", "MoveBytePointerSource",
             "MoveHalfwordRegisterAddress", "MoveHalfwordAddressRegister",
             "MoveHalfwordTargetPointer", "MoveHalfwordPointerSource"} |->
        [width |-> CASE op \in {"MoveRegisterAddress", "MoveAddressRegister",
                                "MoveTargetPointer", "MovePointerSource"} -> 4
                     [] op \in {"MoveHalfwordRegisterAddress", "MoveHalfwordAddressRegister",
                                "MoveHalfwordTargetPointer",
                                "MoveHalfwordPointerSource"} -> 2
                     [] OTHER -> 1,
         store |-> op \in {"MoveAddressRegister", "MovePointerSource",
                           "MoveByteAddressRegister", "MoveBytePointerSource",
                           "MoveHalfwordAddressRegister", "MoveHalfwordPointerSource"},
         direct |-> op \in {"MoveRegisterAddress", "MoveAddressRegister",
                            "MoveByteRegisterAddress", "MoveByteAddressRegister",
                            "MoveHalfwordRegisterAddress", "MoveHalfwordAddressRegister"}]]

\* the conditions of the six bool-compare instructions
BoolCompares(lhs, rhs) ==
    [op \in {"BoolCompareEquals", "BoolCompareNotEquals", "BoolCompareGreater",
             "BoolCompareGreaterOrEquals", "BoolCompareLess",
             "BoolCompareLessOrEquals"} |->
        CASE op = "BoolCompareEquals" -> lhs = rhs
          [] op = "BoolCompareNotEquals" -> lhs # rhs
          [] op = "BoolCompareGreater" -> less(rhs, lhs)
          [] op = "BoolCompareGreaterOrEquals" -> ~less(lhs, rhs)
          [] op = "BoolCompareLess" -> less(lhs, rhs)
          [] OTHER -> ~less(rhs, lhs)]

BitwiseOps == {"AndTargetLhsRhs", "OrTargetLhsRhs", "XorTargetLhsRhs", "NotTargetSource"}

invisible_framebuffer_address_Visible(first_framebuffer_visible) ==
    IF first_framebuffer_visible THEN FIRST_FRAMEBUFFER_START
    ELSE SECOND_FRAMEBUFFER_START

\* Display::invisible_framebuffer_address
invisible_framebuffer_address(first_framebuffer_visible) ==
    IF first_framebuffer_visible THEN SECOND_FRAMEBUFFER_START
    ELSE FIRST_FRAMEBUFFER_START

\* the closure generate_cached_instruction builds for opcode o, applied to p
Executor(o, p, exit_on_halt, debug_assertions) ==
    LET regs == p.registers
        done(q) == handle_cycle_count_and_instruction_pointer(q, o.op)
    IN  CASE o.op = "MoveRegisterImmediate" ->
               done(set_register(p, o.r0, o.immediate))
          [] o.op = "MoveTargetSource" ->
               done(set_register(p, o.r0, regs[o.r1]))
          [] o.op = "HaltAndCatchFire" ->
               IF exit_on_halt THEN [p EXCEPT !.result = "Exit"]
               ELSE [done(p) EXCEPT !.result = "Halted"]
          [] o.op = "DivmodTargetModLhsRhs" ->
               LET lhs == regs[o.r2]
                   rhs == regs[o.r3]
               IN  IF rhs = 0
                   THEN done(set_flag(set_flag(
                            set_register(set_register(p, o.r0, 0), o.r1, lhs),
                            Zero, TRUE), DivideByZero, TRUE))
                   ELSE LET q == set_register(
                                     set_register(p, o.r0, divide(lhs, rhs).quotient),
                                     o.r1, divide(lhs, rhs).remainder)
                        IN  done(set_flag(set_flag(q, Zero, q.registers[o.r0] = 0),
                                          DivideByZero, FALSE))
          [] o.op = "PushRegister" ->
               done(stack_push(p, regs[o.r0], debug_assertions))
          [] o.op = "PopRegister" ->
               LET q == stack_pop(p, debug_assertions)
               IN  done(set_register(q, o.r0, popped(q)))
          [] o.op = "Pop" ->
               done(stack_pop(p, debug_assertions))
          [] o.op = "CallAddress" ->
               done(set_instruction_pointer(
                        push_instruction_pointer(p, debug_assertions), o.immediate))
          [] o.op = "CallRegister" ->
               LET q == push_instruction_pointer(p, debug_assertions)
               IN  done(set_instruction_pointer(q, q.registers[o.r0]))
          [] o.op = "CallPointer" ->
               LET q == push_instruction_pointer(p, debug_assertions)
               IN  IF Running(q) /\ ~word_access_ok(q.registers[o.r0], debug_assertions)
                   THEN Panic(q)
                   ELSE done(set_instruction_pointer(
                                 q, read_data(q.memory, q.registers[o.r0])))
          [] o.op = "Return" ->
               LET q == stack_pop(p, debug_assertions)
               IN  done(set_instruction_pointer(q, popped(q)))
          [] o.op = "JumpImmediate" ->
               done(set_instruction_pointer(p, o.immediate))
          [] o.op = "JumpRegister" ->
               done(set_instruction_pointer(p, regs[o.r0]))
          [] o.op = "JumpImmediateIfEqual" ->
               done(jump_if(p, regs[o.r0] = 0, o.immediate))
          [] o.op = "JumpImmediateIfZero" ->
               done(jump_if(p, get_flag(regs, Zero), o.immediate))
          [] o.op = "JumpRegisterIfEqual" ->
               done(jump_if(p, regs[o.r1] = 0, regs[o.r0]))
          [] o.op = "JumpRegisterIfZero" ->
               done(jump_if(p, get_flag(regs, Zero), regs[o.r0]))
          [] o.op \in DOMAIN ComparisonSets /\ Row(o.op).operand ->
               done(jump_if(p, regs[o.r0] \in ComparisonSets[o.op], o.immediate))
          [] o.op \in DOMAIN ComparisonSets /\ ~Row(o.op).operand ->
               done(jump_if(p, regs[o.r1] \in ComparisonSets[o.op], regs[o.r0]))
          [] o.op \in DOMAIN FlagJumps /\ Row(o.op).operand ->
               done(jump_if(p, get_flag(regs, FlagJumps[o.op].flag) = FlagJumps[o.op].set,
                            o.immediate))
          [] o.op \in DOMAIN FlagJumps /\ ~Row(o.op).operand ->
               done(jump_if(p, get_flag(regs, FlagJumps[o.op].flag) = FlagJumps[o.op].set,
                            regs[o.r0]))
          [] o.op \in {"AddTargetLhsRhs", "SubtractTargetLhsRhs"} ->
               LET r == IF o.op = "AddTargetLhsRhs"
                        THEN overflowing_add(regs[o.r1], regs[o.r2])
                        ELSE overflowing_sub(regs[o.r1], regs[o.r2])
                   q == set_register(p, o.r0, r.result)
               IN  done(set_flag(set_flag(q, Zero, q.registers[o.r0] = 0),
                                 Carry, r.overflow))
          [] o.op = "SubtractWithCarryTargetLhsRhs" ->
               LET carry_flag_set == get_flag(regs, Carry)
                   first == overflowing_sub(regs[o.r1], regs[o.r2])
                   q1 == set_register(p, o.r0, first.result)
                   second == overflowing_sub(q1.registers[o.r0],
                                             IF carry_flag_set THEN 1 ELSE 0)
                   q == set_register(q1, o.r0, second.result)
               IN  done(set_flag(set_flag(q, Zero, q.registers[o.r0] = 0),
                                 Carry, first.overflow \/ second.overflow))
          [] o.op = "AddWithCarryTargetLhsRhs" ->
               LET carry == IF get_flag(regs, Carry) THEN 1 ELSE 0
                   result == wrapping_add(wrapping_add(regs[o.r1], regs[o.r2]), carry)
                   wide == Sum(Sum(Digits(regs[o.r1]), Digits(regs[o.r2])), Digits(carry))
                   overflow_happened == wide[3] # 0 \/ wide[4] # 0
                   q == set_register(p, o.r0, result)
               IN  done(set_flag(set_flag(q, Zero, q.registers[o.r0] = 0),
                                 Carry, overflow_happened))
          [] o.op = "AddTargetSourceImmediate" ->
               LET r == overflowing_add(regs[o.r1], o.immediate)
                   q == set_register(p, o.r0, r.result)
               IN  done(set_flag(set_flag(q, Zero, q.registers[o.r0] = 0),
                                 Carry, r.overflow))
          [] o.op = "SubtractTargetSourceImmediate" ->
               LET q == set_register(p, o.r0, wrapping_sub(regs[o.r1], o.immediate))
                   z == set_flag(q, Zero, q.registers[o.r0] = 0)
               IN  done(set_flag(z, Carry, Running(z) /\ less(z.registers[o.r1], o.immediate)))
          [] o.op = "MultiplyHighLowLhsRhs" ->
               LET result == Product(regs[o.r2], regs[o.r3])
                   q == set_register(set_register(p, o.r0, High(result)),
                                     o.r1, Truncate(result))
                   z == set_flag(q, Zero, q.registers[o.r1] = 0)
               IN  done(set_flag(z, Carry, Running(z) /\ z.registers[o.r0] # 0))
          [] o.op \in {"LeftShiftTargetLhsRhs", "RightShiftTargetLhsRhs"} ->
               LET lhs == regs[o.r1]
                   rhs == regs[o.r2]
                   left == o.op = "LeftShiftTargetLhsRhs"
                   result == IF left THEN wrapping_shl(lhs, rhs) ELSE wrapping_shr(lhs, rhs)
                   zeros == IF left THEN leading_zeros(lhs) ELSE trailing_zeros(lhs)
               IN  IF less(WORD_BITS, rhs)
                   THEN done(set_flag(set_flag(set_register(p, o.r0, 0), Zero, TRUE),
                                      Carry, lhs # 0))
                   ELSE IF debug_assertions /\ rhs = WORD_BITS
                   THEN Panic(p)
                   ELSE done(set_flag(set_flag(set_register(p, o.r0, result),
                                               Zero, result = 0),
                                      Carry, less(zeros, rhs)))
          [] o.op = "CompareTargetLhsRhs" ->
               LET q == set_register(p, o.r0,
                            IF less(regs[o.r1], regs[o.r2]) THEN WORD_MAX
                            ELSE IF regs[o.r1] = regs[o.r2] THEN 0 ELSE 1)
               IN  done(set_flag(q, Zero, q.registers[o.r0] = 0))
          [] o.op \in DOMAIN OffsetMoves ->
               LET sum == overflowing_add(regs[IF OffsetMoves[o.op].store THEN o.r0 ELSE o.r1],
                                          o.immediate)
                   address == sum.result
                   width == OffsetMoves[o.op].width
                   ok == CASE width = 4 -> word_access_ok(address, debug_assertions)
                           [] width = 2 -> halfword_access_ok(address, debug_assertions)
                           [] OTHER -> byte_access_ok(address)
               IN  IF (debug_assertions /\ sum.overflow) \/ ~ok THEN Panic(p)
                   ELSE IF OffsetMoves[o.op].store
                   THEN done([p EXCEPT !.memory =
                                CASE width = 4 -> write_data(@, address, regs[o.r1])
                                  [] width = 2 -> write_halfword(@, address, Lo(regs[o.r1]))
                                  [] OTHER -> write_byte(@, address, regs[o.r1] % 256)])
                   ELSE done(set_register(p, o.r0,
                                CASE width = 4 -> read_data(p.memory, address)
                                  [] width = 2 -> read_halfword(p.memory, address)
                                  [] OTHER -> read_byte(p.memory, address)))
          [] o.op \in DOMAIN PlainMoves ->
               LET move == PlainMoves[o.op]
                   address == IF move.direct THEN o.immediate
                              ELSE regs[IF move.store THEN o.r0 ELSE o.r1]
                   register == IF move.direct \/ ~move.store THEN o.r0 ELSE o.r1
                   ok == CASE move.width = 4 -> word_access_ok(address, debug_assertions)
                           [] move.width = 2 -> halfword_access_ok(address, debug_assertions)
                           [] OTHER -> byte_access_ok(address)
               IN  IF ~ok THEN Panic(p)
                   ELSE IF move.store
                   THEN done([p EXCEPT !.memory =
                                CASE move.width = 4 -> write_data(@, address, regs[register])
                                  [] move.width = 2 ->
                                       write_halfword(@, address, Lo(regs[register]))
                                  [] OTHER -> write_byte(@, address, regs[register] % 256)])
                   ELSE done(set_register(p, register,
                                CASE move.width = 4 -> read_data(p.memory, address)
                                  [] move.width = 2 -> read_halfword(p.memory, address)
                                  [] OTHER -> read_byte(p.memory, address)))
          [] o.op \in BitwiseOps ->
               LET q == set_register(p, o.r0,
                            CASE o.op = "AndTargetLhsRhs" -> bitand(regs[o.r1], regs[o.r2])
                              [] o.op = "OrTargetLhsRhs" -> bitor(regs[o.r1], regs[o.r2])
                              [] o.op = "XorTargetLhsRhs" -> bitxor(regs[o.r1], regs[o.r2])
                              [] OTHER -> bitnot(regs[o.r1]))
               IN  done(set_flag(q, Zero, q.registers[o.r0] = 0))
          [] o.op \in DOMAIN BoolCompares(0, 0) ->
               done(set_register(p, o.r0,
                        IF BoolCompares(regs[o.r1], regs[o.r2])[o.op] THEN 1 ELSE 0))
          [] o.op = "SwapFramebuffers" ->
               done([p EXCEPT !.first_framebuffer_visible = ~@])
          [] o.op = "InvisibleFramebufferAddress" ->
               done(set_register(p, o.r0,
                                 invisible_framebuffer_address(p.first_framebuffer_visible)))
          [] o.op = "NoOp" ->
               done(p)
          [] OTHER -> p

\* registers after Processor::execute_next_instruction
ExecRegisters(regs, mem) ==
    Executor(read_opcode(mem, regs[INSTRUCTION_POINTER]),
             ProcessorState(regs, mem, 0), FALSE, TRUE).registers

\* memory after Processor::execute_next_instruction
ExecMemory(regs, mem) ==
    Executor(read_opcode(mem, regs[INSTRUCTION_POINTER]),
             ProcessorState(regs, mem, 0), FALSE, TRUE).memory

(***************************************************************************)
(* DebugHandle (execution thread).                                         *)
(***************************************************************************)
WorkerGone == wpc = "exited"

\* DebugHandle::send, Ok case: the bounded channel has room
SendOk(message) ==
    /\ ~WorkerGone
    /\ Len(toWorker) < CHANNEL_BOUND
    /\ toWorker' = Append(toWorker, message)
    /\ hist' = [hist EXCEPT !.last_sent = message]
    /\ call' = [call EXCEPT !.sent = Append(@, message.type)]

\* DebugHandle::send, Err case: the worker dropped its receiver; expect() panics
SendPanics ==
    /\ WorkerGone
    /\ hpc' = "panicked"
    /\ UNCHANGED << toWorker, hist, call >>

\* entry of before_instruction_execution up to the first channel operation
before_instruction_execution ==
    /\ hpc = "call"
    /\ instruction_pointer' = registers[INSTRUCTION_POINTER]
    /\ call' = [NewCall EXCEPT !.start_state = state]
    /\ IF state = "WaitingForStart"
       THEN hpc' = "wait_for_start" /\ break_message' = break_message
       ELSE IF state = "Breaking"
       THEN IF did_execute_last_cycle
            THEN /\ hpc' = "send_break_state"
                 /\ break_message' =
                      DebugMessage("Breaking", registers[INSTRUCTION_POINTER], NoRegisters, <<>>)
            ELSE hpc' = "breaking" /\ break_message' = break_message
       ELSE hpc' = "start_breaking_if_requested" /\ break_message' = break_message
    /\ UNCHANGED << cpu, handleVars, machineVars, toWorker, toHandle, workerVars, ideVars, hist >>

\* wait_for_start: send WaitForStart with a clone of the wait group
wait_for_start ==
    /\ hpc = "wait_for_start"
    /\ \/ SendOk(DebugMessage("WaitForStart", 0, NoRegisters, <<>>)) /\ hpc' = "waiting"
       \/ SendPanics
    /\ UNCHANGED << cpu, handleVars, instruction_pointer, break_message, machineVars,
                    toHandle, workerVars, ideVars >>

\* number of clones of the wait group that are still alive
WaitGroupClones ==
    start_notifications
    + Cardinality({ i \in 1..Len(toWorker) : toWorker[i].type = "WaitForStart" })

\* wait_group.wait() returns; before_instruction_execution lines 133-134
wait_group_wait ==
    /\ hpc = "waiting"
    /\ WaitGroupClones = 0
    /\ state' = "Running"
    /\ receive_cache' = <<>>
    /\ hist' = [hist EXCEPT !.cleared = TRUE]
    /\ hpc' = "start_breaking_if_requested"
    /\ UNCHANGED << cpu, attached, breakpoints, should_pause, call_stack,
                    did_execute_last_cycle, instruction_pointer, break_message,
                    machineVars, toWorker, toHandle, workerVars, ideVars, call >>

cleared_cache_Kept(cache) == cache

\* VecDeque::clear
cleared_cache(cache) == << >>

try_recv_empty_Blocking(channel) == FALSE

\* receiver.try_recv() returns Err(TryRecvError::Empty): nothing is queued
try_recv_empty(channel) == channel = <<>>

\* HashSet::extend
extend(set, locations) == set \cup Range(locations)

remove_all_First(set, locations) == set \ {locations[1]}

\* for location in locations { breakpoints.remove(&location) }
remove_all(set, locations) == set \ Range(locations)

\* receiver.try_recv() returned Ok(message): handle_message(message)
handle_message(message) ==
    /\ should_pause' = IF message.type = "Pause" THEN TRUE ELSE should_pause
    /\ breakpoints' =
         CASE message.type = "SetBreakpoints" -> extend(breakpoints, message.locations)
           [] message.type = "RemoveBreakpoints" -> remove_all(breakpoints, message.locations)
           [] OTHER -> breakpoints
    /\ receive_cache' =
         IF message.type \in {"Pause", "SetBreakpoints", "RemoveBreakpoints"}
         THEN receive_cache
         ELSE Append(receive_cache, message)
    /\ hist' = [hist EXCEPT
                  !.pending_set = IF message.type = "SetRegister" THEN message.value ELSE @,
                  !.stale = IF state # "Breaking" /\ message.type \in {"Continue", "StepOne"}
                            THEN @ \cup {message.n} ELSE @]

\* one iteration of the loop of receive_updates_non_blocking that does not
\* leave the loop: try_recv() returned Ok(message), or self.receiver is None
\* and the body of the loop does nothing
receive_updates_non_blocking ==
    /\ hpc \in {"start_breaking_if_requested", "breaking"}
    /\ IF attached
       THEN /\ toHandle # <<>>
            /\ handle_message(Head(toHandle))
            /\ toHandle' = Tail(toHandle)
            /\ UNCHANGED << cpu, attached, state, call_stack, did_execute_last_cycle, hpc,
                            instruction_pointer, break_message, machineVars, toWorker,
                            workerVars, ideVars, call >>
       ELSE UNCHANGED vars

\* try_recv() returned Err(Disconnected): the worker dropped its sender
receive_updates_disconnected ==
    /\ hpc \in {"start_breaking_if_requested", "breaking"}
    /\ attached
    /\ toHandle = <<>>
    /\ WorkerGone
    /\ hpc' = "panicked"
    /\ UNCHANGED << cpu, handleVars, instruction_pointer, break_message, machineVars,
                    toWorker, toHandle, workerVars, ideVars, call, hist >>

should_start_breaking_Always(pause, hit_breakpoint, ip) ==
    DebugMessage("Pausing", ip, NoRegisters, <<>>)

should_start_breaking_NoPause(pause, hit_breakpoint, ip) ==
    IF hit_breakpoint
    THEN DebugMessage("HitBreakpoint", ip, NoRegisters, <<>>)
    ELSE NoMessage

\* lines 180-187: the message that announces the break, if one starts
should_start_breaking(pause, hit_breakpoint, ip) ==
    IF pause
    THEN DebugMessage("Pausing", ip, NoRegisters, <<>>)
    ELSE IF hit_breakpoint
    THEN DebugMessage("HitBreakpoint", ip, NoRegisters, <<>>)
    ELSE NoMessage

\* try_recv() returned Err(Empty) in start_breaking_if_requested: lines 180-196
\* up to the first send, and line 150 when no break starts
start_breaking_if_requested ==
    /\ hpc = "start_breaking_if_requested"
    /\ attached
    /\ try_recv_empty(toHandle)
    /\ ~WorkerGone
    /\ LET hit_breakpoint == instruction_pointer \in breakpoints
           break_request == should_start_breaking(should_pause, hit_breakpoint,
                                                  instruction_pointer)
       IN  /\ should_pause' = FALSE
           /\ IF break_request # NoMessage
              THEN /\ state' = "Breaking"
                   /\ receive_cache' = cleared_cache(receive_cache)
                   /\ break_message' = break_request
                   /\ hpc' = "send_break_state"
                   /\ call' = [call EXCEPT !.entered_break = TRUE,
                                           !.hit = instruction_pointer \in breakpoints]
                   /\ hist' = [hist EXCEPT !.ever_broke = TRUE, !.cleared = TRUE]
              ELSE /\ hpc' = "execute"
                   /\ call' = [call EXCEPT !.hit = instruction_pointer \in breakpoints]
                   /\ UNCHANGED << state, receive_cache, break_message, hist >>
    /\ UNCHANGED << cpu, attached, breakpoints, call_stack, did_execute_last_cycle,
                    instruction_pointer, machineVars, toWorker, toHandle, workerVars,
                    ideVars >>

\* send_break_state(&processor.registers)
send_break_state ==
    /\ hpc = "send_break_state"
    /\ \/ SendOk(BreakStateMessage) /\ hpc' = "send"
       \/ SendPanics
    /\ UNCHANGED << cpu, handleVars, instruction_pointer, break_message, machineVars,
                    toHandle, workerVars, ideVars >>

\* send(break_message) resp. send(DebugMessage::Breaking(instruction_pointer))
send ==
    /\ hpc = "send"
    /\ \/ SendOk(break_message) /\ hpc' = "breaking"
       \/ SendPanics
    /\ UNCHANGED << cpu, handleVars, instruction_pointer, break_message, machineVars,
                    toHandle, workerVars, ideVars >>

did_execute_Always(result) == TRUE

\* line 157: self.did_execute_last_cycle = result == ShouldExecuteInstruction::Yes
did_execute(result) == result = "Yes"

state_after_continue_Stays == "Breaking"

\* line 209: self.state = BreakpointHandleState::Running
state_after_continue == "Running"

pop_front_Back(cache) ==
    [message |-> cache[Len(cache)], rest |-> SubSeq(cache, 1, Len(cache) - 1)]

\* receive_cache.pop_front()
pop_front(cache) == [message |-> Head(cache), rest |-> Tail(cache)]

\* try_recv() returned Err(Empty) in breaking(): lines 204-219 and 157
breaking ==
    /\ hpc = "breaking"
    /\ attached
    /\ try_recv_empty(toHandle)
    /\ ~WorkerGone
    /\ IF receive_cache = <<>>
       THEN /\ did_execute_last_cycle' = did_execute("No")
            /\ hpc' = "call"
            /\ UNCHANGED << state, receive_cache, registers, call, hist >>
       ELSE LET message == pop_front(receive_cache).message
            IN  /\ receive_cache' = pop_front(receive_cache).rest
                /\ call' = [call EXCEPT !.consumed = message.type]
                /\ hist' = [hist EXCEPT !.last_acted = message.n, !.cleared = FALSE]
                /\ CASE message.type = "Terminate" ->
                          /\ hpc' = "exited"
                          /\ UNCHANGED << state, registers, did_execute_last_cycle >>
                     [] message.type = "StepOne" ->
                          /\ hpc' = "execute"
                          /\ UNCHANGED << state, registers, did_execute_last_cycle >>
                     [] message.type = "Continue" ->
                          /\ state' = state_after_continue
                          /\ hpc' = "execute"
                          /\ UNCHANGED << registers, did_execute_last_cycle >>
                     [] message.type = "SetRegister" ->
                          /\ registers' = [registers EXCEPT ![message.register] = message.value]
                          /\ did_execute_last_cycle' = did_execute("No")
                          /\ hpc' = "call"
                          /\ UNCHANGED state
                     [] OTHER ->
                          /\ hpc' = "panicked"
                          /\ UNCHANGED << state, registers, did_execute_last_cycle >>
    /\ UNCHANGED << cpu, attached, breakpoints, should_pause, call_stack, instruction_pointer,
                    break_message, memory, toWorker, toHandle, workerVars, ideVars >>

\* track_call_stack(memory, instruction_pointer)
track_call_stack(stack, mem, ip) ==
    LET opcode == read_opcode(mem, ip)
    IN  CASE opcode.op \in {"CallAddress", "CallRegister", "CallPointer"} ->
               Append(stack, ip)
          [] opcode.op = "Return" ->
               IF stack = <<>> THEN stack ELSE SubSeq(stack, 1, Len(stack) - 1)
          [] OTHER -> stack

\* Machine::execute_next_instruction: the processor executes the instruction
\* exactly when before_instruction_execution returned Yes
MachineStep(result, regs, mem) ==
    IF result = "Yes"
    THEN [registers |-> ExecRegisters(regs, mem), memory |-> ExecMemory(regs, mem)]
    ELSE [registers |-> regs, memory |-> mem]

\* result is Yes: lines 153-158, then the machine executes the instruction
execute ==
    /\ hpc = "execute"
    /\ call_stack' = track_call_stack(call_stack, memory, instruction_pointer)
    /\ did_execute_last_cycle' = did_execute("Yes")
    /\ registers' = MachineStep("Yes", registers, memory).registers
    /\ memory' = MachineStep("Yes", registers, memory).memory
    /\ hist' = [hist EXCEPT !.executed = TRUE,
                            !.last_exec = registers[INSTRUCTION_POINTER],
                            !.last_exec_increment =
                                should_increment_instruction_pointer(
                                    read_opcode(memory, registers[INSTRUCTION_POINTER]).op),
                            !.pending_set = 0]
    /\ hpc' = "call"
    /\ UNCHANGED << cpu, attached, state, breakpoints, receive_cache, should_pause,
                    instruction_pointer, break_message, toWorker, toHandle, workerVars,
                    ideVars, call >>

(***************************************************************************)
(* Debugger (worker thread).                                               *)
(***************************************************************************)
\* the process is still running: no exit(0), no panic of the main thread
ProcessAlive == hpc \notin {"exited", "panicked"}

try_send_Unbounded(channel, message) == Append(channel, message)

\* breakpoint_sender.try_send(message): Ok, or Full and the message is dropped
try_send(channel, message) ==
    IF Len(channel) < CHANNEL_BOUND THEN Append(channel, message) ELSE channel

\* effect of a breakpoint command on a set of breakpoints
ApplyBreakpointCommand(set, command) ==
    CASE command.type = "SetBreakpoints" -> set \cup Range(command.locations)
      [] command.type = "RemoveBreakpoints" -> set \ Range(command.locations)
      [] OTHER -> set

\* the commands handle_message puts into receive_cache
QueuedCommands == {"Continue", "StepOne", "SetRegister", "Terminate"}

\* the DebugCommand that handle_request forwards for a request
CommandOf(request, n) ==
    IF request.type = "StartExecution"
    THEN DebugCommand("Pause", n, <<>>, 0, 0)
    ELSE DebugCommand(request.type, n, request.locations, request.register, request.value)

\* handle_debug_message, WaitForStart: the wait group is kept if !self.started
keeps_wait_group(is_started) == ~is_started

\* select!: recv(self.receiver) -> handle_debug_message
handle_debug_message ==
    /\ ProcessAlive
    /\ wpc = "select"
    /\ toWorker # <<>>
    /\ toWorker' = Tail(toWorker)
    /\ start_notifications' =
         IF Head(toWorker).type = "WaitForStart" /\ keeps_wait_group(started)
         THEN start_notifications + 1
         ELSE start_notifications
    /\ UNCHANGED << cpu, handleVars, hpc, instruction_pointer, break_message, machineVars,
                    toHandle, started, wpc, should_terminate, ideVars, call, hist >>

\* select!: recv(tcp_poll) -> tcp.poll() returned ReceivedRequests
tcp_poll ==
    /\ ProcessAlive
    /\ wpc = "select"
    /\ reqLeft > 0
    /\ wpc' = "requests"
    /\ should_terminate' = FALSE
    /\ UNCHANGED << cpu, handleVars, hpc, instruction_pointer, break_message, machineVars,
                    toWorker, toHandle, started, start_notifications, ideVars, call, hist >>

\* one iteration of the for loop of handle_poll_result: handle_request(request)
\* up to and including its send_to_breakpoint_handler
handle_request(request) ==
    /\ ProcessAlive
    /\ wpc = "requests"
    /\ reqLeft > 0
    /\ reqNo' = reqNo + 1
    /\ reqLeft' = reqLeft - 1
    /\ should_terminate' = IF request.type = "Terminate" THEN TRUE ELSE should_terminate
    /\ wpc' = IF request.type = "StartExecution" THEN "start_execution" ELSE wpc
    /\ LET forwards == request.type # "StartExecution" \/ request.stop_on_entry
           command == CommandOf(request, reqNo + 1)
           accepted == forwards /\ try_send(toHandle, command) # toHandle
       IN  /\ toHandle' = IF forwards THEN try_send(toHandle, command) ELSE toHandle
           /\ hist' = [hist EXCEPT
                 !.bp_sent = IF accepted THEN ApplyBreakpointCommand(@, command) ELSE @,
                 !.forwarded =
                     IF accepted /\ command.type \in QueuedCommands
                     THEN @ \cup {command.n} ELSE @,
                 !.dropped = IF forwards /\ ~accepted THEN reqNo + 1 ELSE @,
                 !.stop_requested =
                     IF request.type = "StartExecution" /\ ~started
                     THEN request.stop_on_entry ELSE @,
                 !.pause_forwarded =
                     IF request.type = "StartExecution" /\ ~started
                     THEN accepted ELSE @,
                 !.terminate_in_break =
                     IF /\ request.type = "Terminate" /\ accepted
                        /\ state = "Breaking" /\ hpc \in {"breaking", "call"}
                        /\ receive_cache = <<>> /\ toHandle = <<>>
                     THEN TRUE ELSE @]
    /\ UNCHANGED << cpu, handleVars, hpc, instruction_pointer, break_message, machineVars,
                    toWorker, started, start_notifications, call >>

\* handle_request, StartExecution: lines 399-400
start_execution ==
    /\ ProcessAlive
    /\ wpc = "start_execution"
    /\ started' = TRUE
    /\ start_notifications' = 0
    /\ wpc' = "requests"
    /\ UNCHANGED << cpu, handleVars, hpc, instruction_pointer, break_message, machineVars,
                    toWorker, toHandle, should_terminate, ideVars, call, hist >>

\* end of handle_poll_result; on ShouldTerminate::Yes run() returns and the
\* Debugger with both channel ends is dropped
handle_poll_result ==
    /\ ProcessAlive
    /\ wpc = "requests"
    /\ IF should_terminate
       THEN /\ wpc' = "exited"
            /\ start_notifications' = 0
            \* messages still queued when the receiver is dropped stay in the
            \* channel or are discarded, depending on the channel implementation
            /\ toWorker' \in {toWorker, <<>>}
       ELSE /\ wpc' = "select"
            /\ UNCHANGED << start_notifications, toWorker >>
    /\ UNCHANGED << cpu, handleVars, hpc, instruction_pointer, break_message, machineVars,
                    toHandle, started, should_terminate, ideVars, call, hist >>

(***************************************************************************)
(* Specification.                                                          *)
(***************************************************************************)
Handle ==
    \/ before_instruction_execution
    \/ wait_for_start
    \/ wait_group_wait
    \/ receive_updates_non_blocking
    \/ receive_updates_disconnected
    \/ start_breaking_if_requested
    \/ send_break_state
    \/ send
    \/ breaking
    \/ execute

Worker ==
    \/ handle_debug_message
    \/ tcp_poll
    \/ \E request \in Requests : handle_request(request)
    \/ start_execution
    \/ handle_poll_result

Next == Handle \/ Worker

Spec == Init /\ [][Next]_vars

(***************************************************************************)
(* The same program started in the state it is in after the IDE has sent   *)
(* CHANNEL_BOUND - 1 RemoveBreakpoints requests before StartExecution: the *)
(* worker has forwarded them all and the handle, which is still            *)
(* WaitingForStart, has drained none.                                      *)
(***************************************************************************)
PreFill == CHANNEL_BOUND - 1

InitFull ==
    /\ InitHandle
    /\ InitMachine
    /\ InitWorker
    /\ toWorker = <<>>
    /\ toHandle = [i \in 1..PreFill |->
                     DebugCommand("RemoveBreakpoints", i, <<ENTRY_POINT>>, 0, 0)]
    /\ reqNo = PreFill
    /\ reqLeft = MaxRequests
    /\ call = NewCall
    /\ hist = NewHist

SpecFull == InitFull /\ [][Next]_vars

(***************************************************************************)
(* The machine built with either handle: the one start_debugger() returns  *)
(* or DebugHandle::dummy(), for which no worker thread exists.             *)
(***************************************************************************)
InitNoDebugger ==
    /\ attached = FALSE
    /\ state = "Running"
    /\ breakpoints = {}
    /\ receive_cache = <<>>
    /\ should_pause = FALSE
    /\ call_stack = <<>>
    /\ did_execute_last_cycle = TRUE
    /\ hpc = "call"
    /\ instruction_pointer = 0
    /\ break_message = NoMessage
    /\ started = FALSE
    /\ start_notifications = 0
    /\ wpc = "none"
    /\ should_terminate = FALSE
    /\ toWorker = <<>>
    /\ toHandle = <<>>
    /\ reqNo = 0
    /\ reqLeft = 0
    /\ call = NewCall
    /\ hist = NewHist

InitDummy == InitNoDebugger /\ InitMachine

SpecEitherHandle == (Init \/ InitDummy) /\ [][Next]_vars

(***************************************************************************)
(* The processor on its own: the main loop steps a machine whose ROM is    *)
(* a short guest program; the debugger side does not move.                 *)
(***************************************************************************)
\* Opcode::as_instruction for the opcode of the given name
Instruction(op, r0, r1, r2, r3, immediate) ==
    as_instruction(Row(op).code, r0, r1,
                   IF Row(op).operand THEN immediate
                   ELSE from_be_bytes(<< r2, r3, 0, 0 >>))

\* immediates and addresses the guest programs use
Values ==
    { 0, 1, 5, 8, 12, ENTRY_POINT + 2 * INSTRUCTION_SIZE, STACK_START + WORD_SIZE }

\* the first instruction of a two-instruction program
Setups ==
    { Instruction("NoOp", 0, 0, 0, 0, 0) }
    \cup { Instruction("MoveRegisterImmediate", r, 0, 0, 0, v) :
             r \in RegisterSet, v \in Values }

\* the second instruction: every opcode of the table with its operands
Tests ==
    { Instruction(op, 0, 0, 0, 0, 0) : op \in {"HaltAndCatchFire", "Pop", "Return", "NoOp"} }
    \cup { Instruction("MoveRegisterImmediate", r, 0, 0, 0, v) :
             r \in RegisterSet, v \in Values }
    \cup { Instruction(op, r, 0, 0, 0, 0) :
             op \in {"PushRegister", "PopRegister", "CallRegister", "CallPointer",
                     "JumpRegister", "JumpRegisterIfZero"},
             r \in RegisterSet }
    \cup { Instruction(op, r, s, 0, 0, 0) :
             op \in {"MoveTargetSource", "JumpRegisterIfEqual"},
             r \in RegisterSet, s \in RegisterSet }
    \cup { Instruction("DivmodTargetModLhsRhs", r, s, t, u, 0) :
             r \in {0, FLAGS, INSTRUCTION_POINTER}, s \in {1, STACK_POINTER},
             t \in {0, 1}, u \in {0, 1} }
    \cup { Instruction(op, 0, 0, 0, 0, v) :
             op \in {"CallAddress", "JumpImmediate", "JumpImmediateIfZero"},
             v \in Values }
    \cup { Instruction("JumpImmediateIfEqual", r, 0, 0, 0, v) :
             r \in RegisterSet, v \in Values }

\* push v, push w, then two pops (into registers, or discarding the first)
StackPrograms ==
    { << Instruction("MoveRegisterImmediate", 0, 0, 0, 0, v),
         Instruction("PushRegister", 0, 0, 0, 0, 0),
         Instruction("MoveRegisterImmediate", 1, 0, 0, 0, w),
         Instruction("PushRegister", 1, 0, 0, 0, 0),
         first,
         Instruction("PopRegister", 1, 0, 0, 0, 0) >> :
        v \in {5, 8}, w \in {1, 12},
        first \in { Instruction("PopRegister", 0, 0, 0, 0, 0),
                    Instruction("Pop", 0, 0, 0, 0, 0) } }

\* a call of each form to a subroutine that pushes, pops and returns; the
\* word after the subroutine holds its address for the pointer form
CallPrograms ==
    LET subroutine == ENTRY_POINT + 3 * INSTRUCTION_SIZE
        pointer == ENTRY_POINT + 6 * INSTRUCTION_SIZE
        body == << Instruction("PushRegister", 0, 0, 0, 0, 0),
                   Instruction("PopRegister", 1, 0, 0, 0, 0),
                   Instruction("Return", 0, 0, 0, 0, 0),
                   << subroutine, 0 >> >>
    IN  { << Instruction("NoOp", 0, 0, 0, 0, 0),
             Instruction("CallAddress", 0, 0, 0, 0, subroutine),
             Instruction("HaltAndCatchFire", 0, 0, 0, 0, 0) >> \o body,
          << Instruction("MoveRegisterImmediate", 0, 0, 0, 0, subroutine),
             Instruction("CallRegister", 0, 0, 0, 0, 0),
             Instruction("HaltAndCatchFire", 0, 0, 0, 0, 0) >> \o body,
          << Instruction("MoveRegisterImmediate", 0, 0, 0, 0, pointer),
             Instruction("CallPointer", 0, 0, 0, 0, 0),
             Instruction("HaltAndCatchFire", 0, 0, 0, 0, 0) >> \o body }

\* codes that no row of the table has, as the top halfword of a word
UnknownCodes == { 79, 32767, 65527 }

\* an instruction whose code is unknown, first or after another instruction
InvalidPrograms ==
    { << << FromHalfwords(code, 0), v >> >> : code \in UnknownCodes, v \in {0, 5} }
    \cup { << setup, << FromHalfwords(code, 257), v >> >> :
              setup \in { Instruction("NoOp", 0, 0, 0, 0, 0),
                          Instruction("MoveRegisterImmediate", 0, 0, 0, 0, 5) },
              code \in UnknownCodes, v \in {0, 5} }

\* a program that overwrites an instruction it has executed with a word of
\* unknown code and jumps back to it
StalePrograms ==
    { << Instruction("MoveRegisterImmediate", 0, 0, 0, 0, FromHalfwords(code, 0)),
         Instruction("NoOp", 0, 0, 0, 0, 0),
         Instruction("MovePointerSourceOffset", 1, 0, 0, 0,
                     ENTRY_POINT + INSTRUCTION_SIZE),
         Instruction("JumpImmediate", 0, 0, 0, 0, ENTRY_POINT + INSTRUCTION_SIZE) >> :
        code \in UnknownCodes }

Programs ==
    { << setup, test >> : setup \in Setups, test \in Tests }
    \cup StackPrograms \cup CallPrograms \cup InvalidPrograms \cup StalePrograms

\* load_rom / write_buffer: the program copied to ENTRY_POINT
Load(program) ==
    [a \in { ENTRY_POINT + INSTRUCTION_SIZE * (i - 1) + d :
               i \in 1..Len(program), d \in {0, WORD_SIZE} } |->
        program[(a - ENTRY_POINT) \div INSTRUCTION_SIZE + 1]
               [IF (a - ENTRY_POINT) % INSTRUCTION_SIZE = 0 THEN 1 ELSE 2]]

\* Processor::new
NewRegisters ==
    [r \in RegisterSet |->
        CASE r = INSTRUCTION_POINTER -> ENTRY_POINT
          [] r = STACK_POINTER -> STACK_START
          [] OTHER -> 0]

\* the debugger side once execution has started: the handle is Running and
\* the worker waits in its select loop
InitRunning ==
    /\ attached = TRUE
    /\ state = "Running"
    /\ breakpoints = {}
    /\ receive_cache = <<>>
    /\ should_pause = FALSE
    /\ call_stack = <<>>
    /\ did_execute_last_cycle = TRUE
    /\ hpc = "execute"
    /\ instruction_pointer = 0
    /\ break_message = NoMessage
    /\ started = TRUE
    /\ start_notifications = 0
    /\ wpc = "select"
    /\ should_terminate = FALSE
    /\ toWorker = <<>>
    /\ toHandle = <<>>
    /\ reqNo = 0
    /\ reqLeft = 0
    /\ call = NewCall
    /\ hist = NewHist

InitCpu ==
    /\ InitRunning
    /\ registers = NewRegisters
    /\ \E program \in Programs : memory = Load(program)
    /\ \E exit_on_halt \in BOOLEAN, debug_assertions \in BOOLEAN :
          cpu = NewCpu(exit_on_halt, debug_assertions)

\* what a step hands back: registers, memory, the machine and processor
\* fields of cpu, and the opcode that ran (InvalidOpcode when none did)
Outcome(p, c, cache, o) ==
    [registers |-> p.registers, memory |-> p.memory,
     cpu |-> [c EXCEPT !.cycle_count = p.cycle_count, !.cache = cache,
                       !.result = p.result,
                       !.first_framebuffer_visible = p.first_framebuffer_visible],
     o |-> o]

\* the register file with the registers opcode o names: a register that no
\* instruction has named so far still holds the 0 of Processor::new
WithRegisters(regs, o) ==
    [r \in DOMAIN regs \cup {o.r0, o.r1, o.r2, o.r3} |->
        IF r \in DOMAIN regs THEN regs[r] ELSE 0]

Processor_execute_next_instruction_Skip(c, regs, mem) ==
    LET ip == regs[INSTRUCTION_POINTER]
        cache_index == ip \div INSTRUCTION_SIZE
        p == [ProcessorState(regs, mem, c.cycle_count) EXCEPT
                 !.first_framebuffer_visible = c.first_framebuffer_visible]
        hit == cache_index \in DOMAIN c.cache
        o == IF hit THEN c.cache[cache_index] ELSE read_opcode(mem, ip)
    IN  IF ip < 0 \/ cache_index >= MEMORY_SIZE \div INSTRUCTION_SIZE
        THEN Outcome(Panic(p), c, c.cache, InvalidOpcode)
        ELSE IF ~hit /\ ~instruction_access_ok(ip, c.debug_assertions)
        THEN Outcome(Panic(p), c, c.cache, InvalidOpcode)
        ELSE IF ~o.ok
        THEN Outcome([advance_instruction_pointer(p) EXCEPT !.result = "Error"],
                     c, c.cache, InvalidOpcode)
        ELSE Outcome(Executor(o, [p EXCEPT !.registers = WithRegisters(@, o)],
                              c.exit_on_halt, c.debug_assertions), c,
                     (cache_index :> o) @@ c.cache, o)

\* Processor::execute_next_instruction
Processor_execute_next_instruction(c, regs, mem) ==
    LET ip == regs[INSTRUCTION_POINTER]
        cache_index == ip \div INSTRUCTION_SIZE
        p == [ProcessorState(regs, mem, c.cycle_count) EXCEPT
                 !.first_framebuffer_visible = c.first_framebuffer_visible]
        hit == cache_index \in DOMAIN c.cache
        o == IF hit THEN c.cache[cache_index] ELSE read_opcode(mem, ip)
    IN  IF ip < 0 \/ cache_index >= MEMORY_SIZE \div INSTRUCTION_SIZE
        THEN Outcome(Panic(p), c, c.cache, InvalidOpcode)
        ELSE IF ~hit /\ ~instruction_access_ok(ip, c.debug_assertions)
        THEN Outcome(Panic(p), c, c.cache, InvalidOpcode)
        ELSE IF ~o.ok
        THEN Outcome([p EXCEPT !.result = "Error"], c, c.cache, InvalidOpcode)
        ELSE Outcome(Executor(o, [p EXCEPT !.registers = WithRegisters(@, o)],
                              c.exit_on_halt, c.debug_assertions), c,
                     (cache_index :> o) @@ c.cache, o)

\* Machine::execute_next_instruction: ExecutionResult::Halted latches is_halted
Machine_execute_next_instruction(c, regs, mem) ==
    [Processor_execute_next_instruction(c, regs, mem) EXCEPT
        !.cpu = IF @.result = "Halted" THEN [@ EXCEPT !.is_halted = TRUE] ELSE @]

execute_next_instruction_Unguarded(c, regs, mem) ==
    Machine_execute_next_instruction(c, regs, mem)

\* fn execute_next_instruction of main.rs
execute_next_instruction(c, regs, mem) ==
    IF ~c.is_halted
    THEN Machine_execute_next_instruction(c, regs, mem)
    ELSE [registers |-> regs, memory |-> mem, cpu |-> c, o |-> InvalidOpcode]

\* registers an opcode writes as its target
Targets(o) ==
    CASE o.op \in {"MoveRegisterImmediate", "MoveTargetSource", "PopRegister"} -> {o.r0}
      [] o.op = "DivmodTargetModLhsRhs" -> {o.r0, o.r1}
      [] OTHER -> {}

Pushes(o) == o.op \in {"PushRegister", "CallAddress", "CallRegister", "CallPointer"}

Pops(o) == o.op \in {"PopRegister", "Pop", "Return"}

\* the shadow of the stack after o ran in state (regs, c): what was pushed
\* and where, and whether a call pushed it
ShadowAfter(shadow, o, regs) ==
    IF Pushes(o)
    THEN Append(shadow,
                [value |-> IF o.op = "PushRegister" THEN regs[o.r0]
                           ELSE regs[INSTRUCTION_POINTER] + INSTRUCTION_SIZE,
                 sp |-> regs[STACK_POINTER],
                 call |-> o.op # "PushRegister",
                 at |-> regs[INSTRUCTION_POINTER]])
    ELSE IF Pops(o) /\ shadow # <<>>
    THEN SubSeq(shadow, 1, Len(shadow) - 1)
    ELSE shadow

\* the stack pointer moved only by pushes and pops that match
CleanAfter(clean, shadow, o) ==
    /\ clean
    /\ STACK_POINTER \notin Targets(o)
    /\ Pops(o) => shadow # <<>>

\* the addresses of the executed calls that no executed return has matched,
\* after o ran at ip
CallsAfter(calls, o, ip) ==
    CASE o.op \in {"CallAddress", "CallRegister", "CallPointer"} -> Append(calls, ip)
      [] o.op = "Return" /\ calls # <<>> -> SubSeq(calls, 1, Len(calls) - 1)
      [] OTHER -> calls

\* what the memory held at each address when an instruction was first
\* executed there, decoded
FirstAfter(first, mem, ip) ==
    IF ip \in DOMAIN first THEN first ELSE (ip :> read_opcode(mem, ip)) @@ first

\* one pass of `for _ in 0..num_cycles { execute_next_instruction(&mut machine) }`;
\* tracks: the debug handle is one that answers Yes and tracks the call
\* stack (Running, nothing to receive, no breakpoint), and its read_opcode
\* panics as read_instruction does
cycle_with(tracks) ==
    /\ cpu.result \notin {"Panic", "Exit"}
    /\ cpu.steps < MaxSteps
    /\ call_stack' =
         IF tracks /\ ~cpu.is_halted
            /\ instruction_access_ok(registers[INSTRUCTION_POINTER], cpu.debug_assertions)
         THEN track_call_stack(call_stack, memory, registers[INSTRUCTION_POINTER])
         ELSE call_stack
    /\ \E out \in { IF tracks /\ ~cpu.is_halted
                       /\ ~instruction_access_ok(registers[INSTRUCTION_POINTER],
                                                 cpu.debug_assertions)
                    THEN [registers |-> registers, memory |-> memory,
                          cpu |-> [cpu EXCEPT !.result = "Panic"], o |-> InvalidOpcode]
                    ELSE execute_next_instruction(cpu, registers, memory) } :
       LET ran == out.o.ok /\ out.cpu.result \in {"Normal", "Halted"}
       IN  /\ registers' = out.registers
           /\ memory' = out.memory
           /\ cpu' = [out.cpu EXCEPT
                         !.steps = @ + 1,
                         !.last = [o |-> out.o, registers |-> registers,
                                   top |-> IF cpu.shadow = <<>> THEN NoEntry
                                           ELSE cpu.shadow[Len(cpu.shadow)],
                                   depth |-> Len(cpu.shadow),
                                   clean |-> cpu.clean,
                                   was_halted |-> cpu.is_halted],
                         !.shadow = IF ran THEN ShadowAfter(@, out.o, registers) ELSE @,
                         !.clean = IF ran THEN CleanAfter(@, cpu.shadow, out.o) ELSE @,
                         !.swaps = IF ran /\ out.o.op = "SwapFramebuffers"
                                   THEN @ + 1 ELSE @,
                         !.calls = IF ran
                                   THEN CallsAfter(@, out.o, registers[INSTRUCTION_POINTER])
                                   ELSE @,
                         !.first = IF ran THEN FirstAfter(@, memory,
                                                          registers[INSTRUCTION_POINTER])
                                   ELSE @]
    /\ UNCHANGED << attached, state, breakpoints, receive_cache, should_pause,
                    did_execute_last_cycle, hpc, instruction_pointer,
                    break_message, toWorker, toHandle, started, start_notifications,
                    wpc, should_terminate, reqNo, reqLeft, call, hist >>

\* a cycle of a machine whose debugger side does not move
cycle == cycle_with(FALSE)

\* a cycle of a machine with a debug handle that is Running
tracked_cycle == cycle_with(TRUE)

NextCpu == cycle

SpecCpu == InitCpu /\ [][NextCpu]_vars

(***************************************************************************)
(* The call stack of the debug handle next to the processor: every cycle  *)
(* of a program with calls goes through before_instruction_execution of a *)
(* Running handle and then through the instruction cache.                 *)
(***************************************************************************)
\* the first word of the instructions a subroutine writes over its call
Replacements ==
    { Instruction(op, 0, 0, 0, 0, 0)[1] : op \in {"NoOp", "Return", "CallRegister"} }

\* a call of each form to a subroutine that overwrites the call and returns,
\* and a jump back to the call
OverwrittenCallPrograms ==
    LET subroutine == ENTRY_POINT + 4 * INSTRUCTION_SIZE
        pointer == ENTRY_POINT + 6 * INSTRUCTION_SIZE
        at == ENTRY_POINT + INSTRUCTION_SIZE
    IN  { << Instruction("MoveRegisterImmediate", 0, 0, 0, 0, word),
             form,
             Instruction("JumpImmediate", 0, 0, 0, 0, at),
             Instruction("HaltAndCatchFire", 0, 0, 0, 0, 0),
             Instruction("MoveAddressRegister", 0, 0, 0, 0, at),
             Instruction("Return", 0, 0, 0, 0, 0),
             << subroutine, 0 >> >> :
            word \in Replacements,
            form \in { Instruction("CallAddress", 0, 0, 0, 0, subroutine),
                       Instruction("CallRegister", 2, 0, 0, 0, 0),
                       Instruction("CallPointer", 3, 0, 0, 0, 0) } }

\* registers 2 and 3 hold the subroutine and the pointer to its address
InitTracked ==
    /\ InitRunning
    /\ registers = [r \in RegisterSet \cup {2, 3} |->
                       CASE r = 2 -> ENTRY_POINT + 4 * INSTRUCTION_SIZE
                         [] r = 3 -> ENTRY_POINT + 6 * INSTRUCTION_SIZE
                         [] OTHER -> NewRegisters[r]]
    /\ \E program \in OverwrittenCallPrograms \cup CallPrograms : memory = Load(program)
    /\ \E debug_assertions \in BOOLEAN : cpu = NewCpu(FALSE, debug_assertions)

NextTracked == tracked_cycle

SpecTracked == InitTracked /\ [][NextTracked]_vars

(***************************************************************************)
(* The instruction cache under programs that overwrite what they have     *)
(* executed or jump into the middle of an instruction.                    *)
(***************************************************************************)
\* a jump into the second word of an instruction, before or after that
\* instruction has been executed
MidInstructionPrograms ==
    { << Instruction("NoOp", 0, 0, 0, 0, 0),
         Instruction("JumpImmediate", 0, 0, 0, 0, ENTRY_POINT + WORD_SIZE),
         Instruction("HaltAndCatchFire", 0, 0, 0, 0, 0) >>,
      << Instruction("JumpImmediate", 0, 0, 0, 0, ENTRY_POINT + 3 * WORD_SIZE),
         Instruction("NoOp", 0, 0, 0, 0, 0),
         Instruction("HaltAndCatchFire", 0, 0, 0, 0, 0) >> }

InitCache ==
    /\ InitRunning
    /\ registers = [r \in RegisterSet \cup {2, 3} |->
                       CASE r = 2 -> ENTRY_POINT + 4 * INSTRUCTION_SIZE
                         [] r = 3 -> ENTRY_POINT + 6 * INSTRUCTION_SIZE
                         [] OTHER -> NewRegisters[r]]
    /\ \E program \in OverwrittenCallPrograms \cup StalePrograms
                       \cup MidInstructionPrograms : memory = Load(program)
    /\ \E exit_on_halt \in BOOLEAN, debug_assertions \in BOOLEAN :
          cpu = NewCpu(exit_on_halt, debug_assertions)

SpecCache == InitCache /\ [][NextCpu]_vars

(***************************************************************************)
(* Instruction encoding on its own: an opcode is encoded by as_instruction *)
(* and the instruction is decoded by try_from.                             *)
(***************************************************************************)
\* the debugger side at rest
debugger_vars ==
    << attached, state, breakpoints, receive_cache, should_pause, call_stack,
       did_execute_last_cycle, hpc, instruction_pointer, break_message, toWorker,
       toHandle, started, start_notifications, wpc, should_terminate, reqNo,
       reqLeft, call, hist >>

InitDetached ==
    /\ InitNoDebugger
    /\ registers = NewRegisters

\* register bytes, and immediates and addresses as words
RegisterBytes == { 0, 1, 255 }

Immediates == { 0, 1, 65536, WORD_MAX }

\* every variant of the table with its operands drawn from the samples
SampleOpcodes ==
    { Opcode(row.op,
             IF row.registers >= 1 THEN r[1] ELSE 0,
             IF row.registers >= 2 THEN r[2] ELSE 0,
             IF row.registers >= 3 THEN r[3] ELSE 0,
             IF row.registers >= 4 THEN r[4] ELSE 0,
             IF row.operand THEN v ELSE 0) :
        row \in OpcodeTable, r \in [1..4 -> RegisterBytes], v \in Immediates }

\* words whose top halfword is no code of the table
UnknownWords ==
    { << FromHalfwords(code, b), v >> :
        code \in UnknownCodes, b \in {0, 257, 65535}, v \in Immediates }

\* Opcode::as_instruction of every sample
Encodings ==
    { [opcode |-> o,
       instruction |-> Instruction(o.op, o.r0, o.r1, o.r2, o.r3, o.immediate)] :
        o \in SampleOpcodes }

InitCodec ==
    /\ InitDetached
    /\ memory = <<>>
    /\ \/ \E o \in SampleOpcodes :
             cpu = [NewCpu(FALSE, TRUE) EXCEPT !.codec.stage = "opcode",
                                              !.codec.opcode = o]
       \/ \E word \in UnknownWords :
             cpu = [NewCpu(FALSE, TRUE) EXCEPT !.codec.stage = "instruction",
                                              !.codec.instruction = word]

\* Opcode::as_instruction
encode ==
    /\ cpu.codec.stage = "opcode"
    /\ LET o == cpu.codec.opcode
       IN  cpu' = [cpu EXCEPT !.codec.stage = "instruction",
                              !.codec.instruction =
                                  Instruction(o.op, o.r0, o.r1, o.r2, o.r3, o.immediate)]
    /\ UNCHANGED << registers, memory >>
    /\ UNCHANGED debugger_vars

\* Opcode::try_from
decode ==
    /\ cpu.codec.stage = "instruction"
    /\ cpu' = [cpu EXCEPT !.codec.stage = "decoded",
                          !.codec.decoded = OpcodeTryFrom(cpu.codec.instruction[1],
                                                          cpu.codec.instruction[2])]
    /\ UNCHANGED << registers, memory >>
    /\ UNCHANGED debugger_vars

NextCodec == encode \/ decode

SpecCodec == InitCodec /\ [][NextCodec]_vars

(***************************************************************************)
(* The memory on its own: a cell is written and read back.                 *)
(***************************************************************************)
\* byte addresses of the cells that are written: the first words and the last
\* word of the memory, and 6 as a word address that is not aligned
LAST_WORD == WORD_SIZE * MEMORY_SIZE - WORD_SIZE

WordAddresses == { 0, 4, 6, 8, LAST_WORD }

HalfwordAddresses == { 0, 2, 6 }

ByteAddresses == { 0, 1, 2, 3, 5 }

InstructionAddresses == { 0, 8, LAST_WORD - WORD_SIZE }

WordValues == { 0, 16909060, WORD_MAX }

HalfwordValues == { 0, 258, HALF - 1 }

ByteValues == { 0, 1, 255 }

InstructionValues == { << 16909060, 84281096 >>, << WORD_MAX, 0 >>, << 0, WORD_MAX >> }

\* the byte at a byte address, most significant byte of a word first
ByteAt(mem, address) == to_be_bytes(read_data(mem, address))[(address % WORD_SIZE) + 1]

\* the bytes looked at around the written cells
ProbeAddresses == 0..15 \cup (LAST_WORD - WORD_SIZE)..(LAST_WORD + WORD_SIZE - 1)

Access(kind, address, value, got) ==
    [kind |-> kind, address |-> address, value |-> value, before |-> memory,
     got |-> got]

InitMemory ==
    /\ InitDetached
    /\ memory = <<>>
    /\ \E debug_assertions \in BOOLEAN : cpu = NewCpu(FALSE, debug_assertions)

MayAccess == cpu.result = "Normal" /\ cpu.steps < MaxWrites

\* what an access leaves behind: the memory, the access, or the panic of a
\* failed debug_assert!
Accessed(ok, mem, access) ==
    /\ memory' = IF ok THEN mem ELSE memory
    /\ cpu' = IF ok THEN [cpu EXCEPT !.steps = @ + 1, !.access = access]
              ELSE [cpu EXCEPT !.steps = @ + 1, !.result = "Panic"]
    /\ UNCHANGED registers
    /\ UNCHANGED debugger_vars

\* Memory::write_data, then Memory::read_data at the same address
write_read_data ==
    /\ MayAccess
    /\ \E address \in WordAddresses, data \in WordValues :
          LET mem == write_data(memory, address, data)
          IN  Accessed(word_access_ok(address, cpu.debug_assertions), mem,
                       Access("word", address, data, read_data(mem, address)))

\* Memory::write_instruction, then Memory::read_instruction
write_read_instruction ==
    /\ MayAccess
    /\ \E address \in InstructionAddresses, instruction \in InstructionValues :
          LET mem == write_instruction(memory, address, instruction)
          IN  Accessed(instruction_access_ok(address, cpu.debug_assertions), mem,
                       Access("instruction", address, instruction,
                              read_instruction(mem, address)))

\* Memory::write_halfword, then Memory::read_halfword
write_read_halfword ==
    /\ MayAccess
    /\ \E address \in HalfwordAddresses, halfword \in HalfwordValues :
          LET mem == write_halfword(memory, address, halfword)
          IN  Accessed(halfword_access_ok(address, cpu.debug_assertions), mem,
                       Access("halfword", address, halfword,
                              read_halfword(mem, address)))

\* Memory::write_byte, then Memory::read_byte
write_read_byte ==
    /\ MayAccess
    /\ \E address \in ByteAddresses, byte \in ByteValues :
          LET mem == write_byte(memory, address, byte)
          IN  Accessed(byte_access_ok(address), mem,
                       Access("byte", address, byte, read_byte(mem, address)))

NextMemory ==
    \/ write_read_data
    \/ write_read_instruction
    \/ write_read_halfword
    \/ write_read_byte

SpecMemory == InitMemory /\ [][NextMemory]_vars

(***************************************************************************)
(* The arithmetic, comparison and pointer+offset opcodes on their own: one *)
(* instruction under test and the instruction after it, run on registers   *)
(* drawn from samples of the 32-bit range.                                 *)
(***************************************************************************)
\* register contents: small values, the shift amounts around Word::BITS, and
\* 2^16, 2^31 and 2^32 - 1
WordSamples == { 0, 1, 2, 32, 33, 65536, (0 - 2147483647) - 1, WORD_MAX }

\* the flags register before the instruction: nothing set, or Carry
FlagSamples == { 0, Carry }

\* offsets that reach the words of the program, from a pointer of 0 and,
\* wrapping around, from a pointer of 2^32 - 1
Offsets == { 4, ENTRY_POINT + 4, ENTRY_POINT + 5, ENTRY_POINT + 6 }

AluTests ==
    { Instruction(op, target, lhs, rhs, 0, 0) :
        op \in {"AddTargetLhsRhs", "AddWithCarryTargetLhsRhs", "SubtractTargetLhsRhs",
                "SubtractWithCarryTargetLhsRhs", "LeftShiftTargetLhsRhs",
                "RightShiftTargetLhsRhs", "CompareTargetLhsRhs"},
        target \in {0, 2}, lhs \in {0, 1}, rhs \in {0, 1} }
    \cup { Instruction(op, target, 0, 0, 0, v) :
              op \in {"AddTargetSourceImmediate", "SubtractTargetSourceImmediate"},
              target \in {0, 2}, v \in {0, 1, 65536, WORD_MAX} }
    \cup { Instruction(op, t[1], t[2], 0, 1, 0) :
              op \in {"MultiplyHighLowLhsRhs", "DivmodTargetModLhsRhs"},
              t \in { << 2, 3 >>, << 0, 1 >>, << 1, 0 >>, << 2, 2 >> } }
    \cup { Instruction(op, 0, 0, 0, 0, v) :
              op \in DOMAIN ComparisonSets \cup {"JumpImmediateIfEqual"},
              v \in {0, ENTRY_POINT + 4 * INSTRUCTION_SIZE} }
    \cup { Instruction(op, 1, 0, 0, 0, 0) :
              op \in DOMAIN ComparisonSets \cup {"JumpRegisterIfEqual"} }
    \cup { Instruction(op, 2, 0, 0, 0, v) : op \in DOMAIN OffsetMoves, v \in Offsets }
    \cup { Instruction(op, 0, 1, 0, 0, v) : op \in DOMAIN OffsetMoves, v \in Offsets }
    \cup { Instruction(op, 1, 0, 0, 0, v) : op \in DOMAIN OffsetMoves, v \in Offsets }

\* the instruction under test, then a jump that asks for the DivideByZero flag
AluPrograms ==
    { << test, Instruction("JumpImmediateIfDivideByZero", 0, 0, 0, 0,
                           ENTRY_POINT + 4 * INSTRUCTION_SIZE) >> : test \in AluTests }

\* Processor::new, then registers 0 and 1 and the flags as drawn
AluRegisters(v0, v1, flags) ==
    [r \in RegisterSet \cup {2, 3} |->
        CASE r = 0 -> v0
          [] r = 1 -> v1
          [] r = FLAGS -> flags
          [] r = INSTRUCTION_POINTER -> ENTRY_POINT
          [] r = STACK_POINTER -> STACK_START
          [] OTHER -> 0]

\* the last two cycles of the main loop
InitAlu ==
    /\ InitNoDebugger
    /\ \E v0 \in WordSamples, v1 \in WordSamples, flags \in FlagSamples :
          registers = AluRegisters(v0, v1, flags)
    /\ \E program \in AluPrograms : memory = Load(program)
    /\ \E debug_assertions \in BOOLEAN :
          cpu = [NewCpu(FALSE, debug_assertions) EXCEPT !.steps = MaxSteps - 2]

SpecAlu == InitAlu /\ [][NextCpu]_vars

(***************************************************************************)
(* The flags: one bool-compare, bitwise, move, push or pop instruction    *)
(* run from registers 0 and 1 and a FLAGS register of any content.        *)
(***************************************************************************)
\* FLAGS with no flag, each flag, all flags, and a bit that is no flag
FlagContents == { 0, Zero, Carry, DivideByZero, Zero + Carry + DivideByZero,
                  2 * DivideByZero }

OperandSamples == { 0, 1, 6, 65536, WORD_MAX }

FlagTests ==
    { Instruction(op, target, 0, 1, 0, 0) :
        op \in DOMAIN BoolCompares(0, 0) \cup BitwiseOps \cup {"MoveTargetSource"},
        target \in {0, 2, FLAGS, INSTRUCTION_POINTER} }
    \cup { Instruction(op, t[1], t[2], 0, 0, ENTRY_POINT + INSTRUCTION_SIZE) :
              op \in DOMAIN PlainMoves \cup DOMAIN OffsetMoves
                     \cup {"MoveRegisterImmediate"},
              t \in { << 2, 0 >>, << 0, 2 >>, << FLAGS, 2 >>, << 2, FLAGS >> } }
    \cup { Instruction(op, register, 0, 0, 0, 0) :
              op \in {"PushRegister", "PopRegister", "Pop"}, register \in {0, FLAGS} }

\* the instruction under test, then a no-op
FlagPrograms ==
    { << test, Instruction("NoOp", 0, 0, 0, 0, 0) >> : test \in FlagTests }

InitFlags ==
    /\ InitNoDebugger
    /\ \E v0 \in OperandSamples, v1 \in OperandSamples, flags \in FlagContents :
          registers = AluRegisters(v0, v1, flags)
    /\ \E program \in FlagPrograms : memory = Load(program)
    /\ \E debug_assertions \in BOOLEAN :
          cpu = [NewCpu(FALSE, debug_assertions) EXCEPT !.steps = MaxSteps - 2]

SpecFlags == InitFlags /\ [][NextCpu]_vars

(***************************************************************************)
(* The display: programs made of swap-framebuffers and                    *)
(* invisible-framebuffer-address instructions only.                       *)
(***************************************************************************)
DisplayInstructions ==
    { Instruction("SwapFramebuffers", 0, 0, 0, 0, 0),
      Instruction("InvisibleFramebufferAddress", 0, 0, 0, 0, 0),
      Instruction("InvisibleFramebufferAddress", 1, 0, 0, 0, 0) }

\* one display instruction for every cycle of the run
DisplayPrograms == [1..MaxSteps -> DisplayInstructions]

\* Machine::new with a display program loaded; DisplayImplementation::new
\* shows the first framebuffer
InitDisplay ==
    /\ InitDetached
    /\ \E program \in DisplayPrograms : memory = Load(program)
    /\ \E debug_assertions \in BOOLEAN : cpu = NewCpu(FALSE, debug_assertions)

SpecDisplay == InitDisplay /\ [][NextCpu]_vars

(***************************************************************************)
(* SegmentedReader: a growable buffer over a byte stream that yields the  *)
(* zero-terminated segments of the stream as they become complete.  The   *)
(* buffer is the sequence of its bytes (index 0 of the code is index 1),  *)
(* a Segment is its range start..end (end excluded) and its version.      *)
(***************************************************************************)
INITIAL_BUFFER_SIZE == 1024

\* vec![0; n]
Zeros(n) == [i \in 1..n |-> 0]

\* SegmentedReader::new
NewReader ==
    [buffer |-> Zeros(INITIAL_BUFFER_SIZE), length |-> 0, next_segment_start |-> 0,
     buffer_version |-> 0]

\* buffer[start..end]
Slice(buffer, start, end) == SubSeq(buffer, start + 1, end)

\* max(INITIAL_BUFFER_SIZE, 2 * rest)
buffer_size(rest) ==
    IF 2 * rest > INITIAL_BUFFER_SIZE THEN 2 * rest ELSE INITIAL_BUFFER_SIZE

consume_old_segments_KeepVersion(r) ==
    IF r.next_segment_start = 0 THEN r
    ELSE IF r.next_segment_start = r.length
    THEN [r EXCEPT !.length = 0, !.next_segment_start = 0]
    ELSE [r EXCEPT
             !.buffer = Slice(r.buffer, r.next_segment_start, r.length)
                        \o Zeros(buffer_size(r.length - r.next_segment_start)
                                 - (r.length - r.next_segment_start)),
             !.length = r.length - r.next_segment_start,
             !.next_segment_start = 0]

consume_old_segments_DropRest(r) ==
    IF r.next_segment_start = 0 THEN r
    ELSE [r EXCEPT !.buffer_version = @ + 1, !.length = 0, !.next_segment_start = 0]

\* SegmentedReader::consume_old_segments
consume_old_segments(r) ==
    IF r.next_segment_start = 0 THEN r
    ELSE IF r.next_segment_start = r.length
    THEN [r EXCEPT !.buffer_version = @ + 1, !.length = 0, !.next_segment_start = 0]
    ELSE [r EXCEPT
             !.buffer_version = @ + 1,
             !.buffer = Slice(r.buffer, r.next_segment_start, r.length)
                        \o Zeros(buffer_size(r.length - r.next_segment_start)
                                 - (r.length - r.next_segment_start)),
             !.length = r.length - r.next_segment_start,
             !.next_segment_start = 0]

\* SegmentedReader::grow_buffer
grow_buffer(r) == [r EXCEPT !.buffer = @ \o Zeros(Len(@))]

\* SegmentedReader::read up to the call of from.read: old segments are
\* consumed and a full buffer grows
before_read(r) ==
    IF consume_old_segments(r).length = Len(consume_old_segments(r).buffer)
    THEN grow_buffer(consume_old_segments(r))
    ELSE consume_old_segments(r)

\* the k-th smallest element of a set of numbers
Nth(S, k) == CHOOSE p \in S : Cardinality({ q \in S : q <= p }) = k

\* the Vec<Segment> of a read that found the given endings in reader r
Segments(r, endings) ==
    [k \in 1..Cardinality(endings) |->
        [range |-> << IF k = 1 THEN r.next_segment_start ELSE Nth(endings, k - 1) + 1,
                      Nth(endings, k) >>,
         buffer_version |-> r.buffer_version]]

\* the rest of SegmentedReader::read for a from.read that stored the bytes
\* of chunk (length > 0): the reader afterwards and the segments returned
read_chunk(r, chunk) ==
    LET search_start == r.length
        search_end == r.length + Len(chunk)
        buffer == [i \in 1..Len(r.buffer) |->
                      IF i \in (search_start + 1)..search_end
                      THEN chunk[i - search_start] ELSE r.buffer[i]]
        endings == { i - 1 : i \in { j \in (search_start + 1)..search_end :
                                        chunk[j - search_start] = 0 } }
    IN  [reader |-> [r EXCEPT !.buffer = buffer,
                              !.length = search_end,
                              !.next_segment_start =
                                  IF endings = {} THEN @
                                  ELSE Nth(endings, Cardinality(endings)) + 1],
         segments |-> Segments(r, endings)]

\* SegmentedReader::read
read(r, chunk) == read_chunk(before_read(r), chunk)

clear_KeepVersion(r) == [r EXCEPT !.length = 0, !.next_segment_start = 0]

\* SegmentedReader::clear
clear(r) ==
    [r EXCEPT !.buffer_version = @ + 1, !.length = 0, !.next_segment_start = 0]

\* SegmentedReader::segment: the version check and the bounds check of the
\* slice, and the bytes
segment_panics(r, s) ==
    \/ s.buffer_version # r.buffer_version
    \/ s.range[1] > s.range[2]
    \/ s.range[2] > Len(r.buffer)

segment(r, s) == Slice(r.buffer, s.range[1], s.range[2])

(***************************************************************************)
(* A reader fed with the reads of a byte stream.                          *)
(***************************************************************************)
\* n bytes other than 0
Bulk(n) == [i \in 1..n |-> 7]

\* what one from.read delivers
Chunks ==
    { << 0 >>, << 7 >>, << 7, 0 >>, << 0, 7 >>, << 0, 0 >>, << 7, 0, 8, 0, 9 >>,
      Bulk(INITIAL_BUFFER_SIZE), << 0 >> \o Bulk(INITIAL_BUFFER_SIZE - 1),
      Bulk(INITIAL_BUFFER_SIZE \div 2 + 1) }

\* the reader, the bytes read so far since the last clear (stream), the
\* contents of the segments the reads returned since then (delivered), the
\* segments of the last read (segments), every segment returned so far with
\* the number of calls made when it was returned (issued), the number of
\* read and clear calls (calls), and the last call of segment (asked, got)
NewSession ==
    [stage |-> "reader", reader |-> NewReader, stream |-> << >>, delivered |-> << >>,
     segments |-> << >>, issued |-> {}, calls |-> 0,
     asked |-> [s |-> [range |-> << 0, 0 >>, buffer_version |-> 0],
                bytes |-> << >>, calls |-> 0],
     got |-> [result |-> "none", bytes |-> << >>]]

InitReader ==
    /\ InitDetached
    /\ memory = << >>
    /\ cpu = [NewCpu(FALSE, TRUE) EXCEPT !.session = NewSession]

MayRead == cpu.session.calls < MaxReads /\ cpu.session.got.result # "panic"

\* reader.read(from) with a source that has bytes: the segments are read out
\* with reader.segment right away
reader_read ==
    /\ MayRead
    /\ \E chunk \in Chunks :
          /\ Len(chunk) <= Len(before_read(cpu.session.reader).buffer)
                           - before_read(cpu.session.reader).length
          /\ \E out \in { read(cpu.session.reader, chunk) } :
                cpu' = [cpu EXCEPT
                    !.session.reader = out.reader,
                    !.session.stream = @ \o chunk,
                    !.session.delivered =
                        @ \o [k \in 1..Len(out.segments) |->
                                 segment(out.reader, out.segments[k])],
                    !.session.segments = out.segments,
                    !.session.calls = @ + 1,
                    !.session.issued =
                        @ \cup { [s |-> out.segments[k],
                                  bytes |-> segment(out.reader, out.segments[k]),
                                  calls |-> cpu.session.calls + 1] :
                                 k \in 1..Len(out.segments) }]
    /\ UNCHANGED << registers, memory >>
    /\ UNCHANGED debugger_vars

\* reader.read(from) with a source that returns an error or 0 bytes
\* (Error::Io, Error::Disconnected): no segments
reader_read_nothing ==
    /\ MayRead
    /\ cpu' = [cpu EXCEPT !.session.reader = before_read(@),
                          !.session.segments = << >>,
                          !.session.calls = @ + 1]
    /\ UNCHANGED << registers, memory >>
    /\ UNCHANGED debugger_vars

\* reader.clear()
reader_clear ==
    /\ MayRead
    /\ cpu' = [cpu EXCEPT !.session.reader = clear(@),
                          !.session.stream = << >>,
                          !.session.delivered = << >>,
                          !.session.segments = << >>,
                          !.session.calls = @ + 1]
    /\ UNCHANGED << registers, memory >>
    /\ UNCHANGED debugger_vars

\* reader.segment(s) for a segment some read returned
reader_segment ==
    /\ cpu.session.got.result # "panic"
    /\ \E h \in cpu.session.issued :
          cpu' = [cpu EXCEPT
              !.session.asked = h,
              !.session.got =
                  IF segment_panics(cpu.session.reader, h.s)
                  THEN [result |-> "panic", bytes |-> << >>]
                  ELSE [result |-> "bytes", bytes |-> segment(cpu.session.reader, h.s)]]
    /\ UNCHANGED << registers, memory >>
    /\ UNCHANGED debugger_vars

NextReader == reader_read \/ reader_read_nothing \/ reader_clear \/ reader_segment

SpecReader == InitReader /\ [][NextReader]_vars

(***************************************************************************)
(* TcpHandler: the listener, the client connection and its reader, polled *)
(* by the worker, which forwards the requests of a poll to the handle.    *)
(***************************************************************************)
\* the bytes of {"Continue":{}} and of {"StepOne":{}}
ContinueJson == << 123, 34, 67, 111, 110, 116, 105, 110, 117, 101, 34, 58, 123, 125, 125 >>
StepOneJson == << 123, 34, 83, 116, 101, 112, 79, 110, 101, 34, 58, 123, 125, 125 >>

\* serde_json::from_slice::<Request> on the frames a client sends here
from_slice(slice) ==
    CASE slice = ContinueJson ->
           [ok |-> TRUE, request |-> Request("Continue", FALSE, << >>, 0, 0)]
      [] slice = StepOneJson ->
           [ok |-> TRUE, request |-> Request("StepOne", FALSE, << >>, 0, 0)]
      [] OTHER -> [ok |-> FALSE, request |-> Request("None", FALSE, << >>, 0, 0)]

\* PollReturn and Error of tcp_protocol
PollReturn(kind, requests) == [kind |-> kind, requests |-> requests]

parse_requests_Prefix(r, segments) ==
    LET parsed == [k \in 1..Len(segments) |-> from_slice(segment(r, segments[k]))]
        good == { k \in 0..Len(segments) : \A i \in 1..k : parsed[i].ok }
    IN  PollReturn("ReceivedRequests",
                   [k \in 1..Nth(good, Cardinality(good)) |-> parsed[k].request])

\* TcpHandler::parse_requests: the first frame that fails ends the loop with
\* the error, the requests collected so far are dropped
parse_requests(r, segments) ==
    LET parsed == [k \in 1..Len(segments) |-> from_slice(segment(r, segments[k]))]
    IN  IF \E k \in 1..Len(segments) : ~parsed[k].ok
        THEN PollReturn("Serde", << >>)
        ELSE PollReturn("ReceivedRequests", [k \in 1..Len(segments) |-> parsed[k].request])

\* the for loop of handle_poll_result: handle_request and try_send for each
\* request in turn; n is the number of requests read before
RECURSIVE forward_requests(_, _, _)
forward_requests(channel, requests, n) ==
    IF requests = << >> THEN channel
    ELSE forward_requests(try_send(channel, CommandOf(Head(requests), n + 1)),
                          Tail(requests), n + 1)

\* TcpHandler::start, no client yet; polls counts the calls of poll, frames
\* holds the contents of the segments the last read returned
NewTcp ==
    [stage |-> "tcp", listener |-> TRUE, client |-> FALSE, reader |-> NewReader,
     result |-> PollReturn("None", << >>), frames |-> << >>, calls |-> 0,
     errors |-> 0]

\* what the client's stream delivers to one read
TcpChunks ==
    { ContinueJson \o << 0 >>,
      StepOneJson \o << 0 >>,
      ContinueJson \o << 0 >> \o StepOneJson \o << 0 >>,
      ContinueJson \o << 0 >> \o SubSeq(StepOneJson, 1, 13) \o << 0 >>,
      ContinueJson \o << 0 >> \o << 0 >> \o StepOneJson \o << 0 >>,
      ContinueJson \o << 0 >> \o SubSeq(StepOneJson, 1, 4),
      SubSeq(ContinueJson, 1, 5),
      SubSeq(ContinueJson, 6, 15) \o << 0 >>,
      << 0 >> }

InitTcp ==
    /\ InitDetached
    /\ memory = << >>
    /\ cpu = [NewCpu(FALSE, TRUE) EXCEPT !.session = NewTcp]

MayPoll == cpu.session.calls < MaxPolls

\* what is left of the state when a poll has changed cpu and toHandle
PollFrame ==
    UNCHANGED << attached, state, breakpoints, receive_cache, should_pause, call_stack,
                 did_execute_last_cycle, hpc, instruction_pointer, break_message,
                 registers, memory, toWorker, started, start_notifications, wpc,
                 should_terminate, reqNo, reqLeft, call, hist >>

tcp_disconnect_KeepClient(t) == [t EXCEPT !.reader = clear(@)]

\* TcpHandler::disconnect
tcp_disconnect(t) == [t EXCEPT !.client = FALSE, !.reader = clear(@)]

\* poll without a client: tcp_accept, a client is waiting (ClientConnected)
\* or none is (WouldBlock, Nothing)
tcp_accept ==
    /\ MayPoll
    /\ ~cpu.session.client
    /\ cpu.session.listener
    /\ \E waiting \in BOOLEAN :
          cpu' = [cpu EXCEPT
              !.session.client = waiting,
              !.session.result = PollReturn(IF waiting THEN "ClientConnected"
                                            ELSE "Nothing", << >>),
              !.session.frames = << >>,
              !.session.calls = @ + 1]
    /\ UNCHANGED toHandle
    /\ PollFrame

\* poll with a client whose stream has bytes: reader.read, parse_requests,
\* disconnect on an error; handle_poll_result forwards the requests
tcp_read ==
    /\ MayPoll
    /\ cpu.session.client
    /\ \E chunk \in TcpChunks :
       \E out \in { read(cpu.session.reader, chunk) } :
       \E result \in { parse_requests(out.reader, out.segments) } :
          /\ cpu' = [cpu EXCEPT
                 !.session = IF result.kind = "Serde"
                             THEN tcp_disconnect([@ EXCEPT !.reader = out.reader])
                             ELSE [@ EXCEPT !.reader = out.reader],
                 !.session.result = result,
                 !.session.frames = [k \in 1..Len(out.segments) |->
                                        segment(out.reader, out.segments[k])],
                 !.session.calls = @ + 1,
                 !.session.errors = IF result.kind = "Serde" THEN @ + 1 ELSE @]
          /\ toHandle' = forward_requests(toHandle, result.requests, Len(toHandle))
    /\ PollFrame

\* poll with a client whose read returns 0 bytes (ClientDisconnected) or
\* WouldBlock (Nothing)
tcp_read_nothing ==
    /\ MayPoll
    /\ cpu.session.client
    /\ \E closed \in BOOLEAN :
          cpu' = [cpu EXCEPT
              !.session = IF closed
                          THEN tcp_disconnect([@ EXCEPT !.reader = before_read(@)])
                          ELSE [@ EXCEPT !.reader = before_read(@)],
              !.session.result = PollReturn(IF closed THEN "ClientDisconnected"
                                            ELSE "Nothing", << >>),
              !.session.frames = << >>,
              !.session.calls = @ + 1]
    /\ UNCHANGED toHandle
    /\ PollFrame

NextTcp == tcp_accept \/ tcp_read \/ tcp_read_nothing

SpecTcp == InitTcp /\ [][NextTcp]_vars

(***************************************************************************)
(* Properties.                                                             *)
(***************************************************************************)
\* the call of before_instruction_execution in progress (or just finished)
\* was made while the handle was Breaking, or entered the break itself
InBreak == call.start_state = "Breaking" \/ call.entered_break

\* C1 as stated: a call made with IP in the breakpoint set while the handle
\* is Running never lets the instruction at IP execute.
C1_HitNeverExecutes ==
    ~(hpc = "execute" /\ call.hit /\ call.start_state # "Breaking")

\* C1 (amended): a call made with IP in the breakpoint set while the handle is
\* Running puts the handle in Breaking; a call that is in a break lets an
\* instruction execute only if its break loop consumed a StepOne or Continue
\* (the call that enters the break included); after a consumed StepOne the
\* instruction executes and the handle is still Breaking when the call ends;
\* a consumed Continue puts the handle in Running and the instruction executes.
C1_BreakStepContinue ==
    /\ call.hit => call.entered_break
    /\ call.entered_break /\ hpc \in {"send_break_state", "send", "breaking"}
         => state = "Breaking"
    /\ (hpc = "execute" /\ InBreak) => call.consumed \in {"StepOne", "Continue"}
    /\ call.consumed = "StepOne" => (state = "Breaking" /\ hpc \in {"execute", "call"})
    /\ call.consumed = "Continue" => (state = "Running" /\ hpc \in {"execute", "call"})
    /\ (hpc = "call" /\ InBreak /\ call.consumed \notin {"StepOne", "Continue"})
         => ~did_execute_last_cycle

\* C1 witness: after a breakpoint hit, a later call consumed a StepOne and the
\* instruction at the breakpoint is about to execute
C1_Witness ==
    /\ hpc = "execute"
    /\ call.start_state = "Breaking"
    /\ call.consumed = "StepOne"
    /\ hist.last_sent.type = "HitBreakpoint"
    /\ hist.last_sent.location = registers[INSTRUCTION_POINTER]

\* C2 as stated: with a worker attached, the handle has left WaitingForStart
\* or an instruction has executed only if the worker has processed a
\* StartExecution request.
C2_StartGate ==
    (state # "WaitingForStart" \/ hist.executed) => started

\* C3 as stated, in the form a finite run refutes: once the worker has
\* processed StartExecution the handle becomes Running, so it is never dead
\* while still WaitingForStart.
C3_StartedBecomesRunning ==
    ~(started /\ state = "WaitingForStart" /\ hpc = "panicked")

Pausing(ip) == DebugMessage("Pausing", ip, NoRegisters, <<>>)

IsPrefix(a, b) == Len(a) <= Len(b) /\ a = SubSeq(b, 1, Len(a))

\* the messages of a call without the WaitForStart of the first call
BreakMessagesSent ==
    IF call.sent # <<>> /\ call.sent[1] = "WaitForStart" THEN Tail(call.sent) ELSE call.sent

\* C5 as stated: the call that hits a breakpoint sends HitBreakpoint first
\* and the BreakState after it.
C5_HitThenState ==
    (call.entered_break /\ break_message.type = "HitBreakpoint")
        => IsPrefix(BreakMessagesSent, <<"HitBreakpoint", "BreakState">>)

\* C5 (amended): the call that hits a breakpoint at A sends a BreakState
\* carrying the registers followed by HitBreakpoint{location = A}; the call
\* after an executed StepOne sends a BreakState followed by
\* Breaking{location = IP}, which is A + 8 after a non-branch instruction at A.
C5_StateThenHit ==
    /\ call.entered_break
         => /\ IsPrefix(BreakMessagesSent, <<"BreakState", break_message.type>>)
            /\ hpc \in {"breaking", "execute", "call"}
                 => BreakMessagesSent = <<"BreakState", break_message.type>>
    /\ (call.entered_break /\ break_message.type = "HitBreakpoint")
         => (call.hit /\ break_message.location = instruction_pointer)
    /\ (hpc = "send" /\ hist.last_sent.type = "BreakState")
         => (hist.last_sent.registers = registers
             /\ hist.last_sent.call_stack = call_stack)
    /\ call.start_state = "Breaking"
         => IsPrefix(call.sent, <<"BreakState", "Breaking">>)
    /\ (call.start_state = "Breaking" /\ hpc = "breaking" /\ did_execute_last_cycle)
         => /\ call.sent = <<"BreakState", "Breaking">>
            /\ hist.last_sent.location = registers[INSTRUCTION_POINTER]
            /\ hist.last_exec_increment
                 => hist.last_sent.location = hist.last_exec + INSTRUCTION_SIZE

\* C5 witness: a breakpoint at A was hit, a StepOne executed the non-branch
\* instruction at A, and the next call has sent Breaking{A + 8}
C5_Witness ==
    /\ hpc = "breaking"
    /\ call.start_state = "Breaking"
    /\ hist.last_sent.type = "Breaking"
    /\ hist.last_exec \in breakpoints
    /\ hist.last_exec_increment
    /\ hist.last_sent.location = hist.last_exec + INSTRUCTION_SIZE

\* C6 as stated: when an instruction executes, every SetRegister(0, v) the
\* handle has drained since the previous instruction has been applied.
C6_SetRegisterApplied ==
    (hpc = "execute" /\ hist.pending_set # 0) => registers[0] = hist.pending_set

\* C7: in every step in which the break loop acts on a command, it is the
\* only command of that call, its serial number is larger than that of the
\* command acted on before, no forwarded queue command between the two was
\* skipped unless receive_cache was cleared in between, and a Continue leaves
\* the handle Running (so a later StepOne is not considered in that break).
C7_CommandOrder ==
    [][ hist'.last_acted # hist.last_acted
          => /\ call.consumed = "None"
             /\ hist'.last_acted > hist.last_acted
             /\ ~hist.cleared
                  => \A k \in hist.forwarded :
                        ~(hist.last_acted < k /\ k < hist'.last_acted)
             /\ call'.consumed = "Continue" => state' = "Running" ]_vars

\* C7 witness: a Continue was acted on while a StepOne forwarded after it
\* waits in receive_cache
C7_Witness ==
    /\ hpc = "execute"
    /\ call.consumed = "Continue"
    /\ receive_cache # <<>>
    /\ receive_cache[1].type = "StepOne"
    /\ receive_cache[1].n > hist.last_acted

RECURSIVE ApplyAll(_, _)
ApplyAll(set, commands) ==
    IF commands = <<>> THEN set
    ELSE ApplyAll(ApplyBreakpointCommand(set, Head(commands)), Tail(commands))

\* C8: the breakpoint set of the handle, with the commands still queued
\* applied to it, is the result of applying all forwarded SetBreakpoints
\* (union) and RemoveBreakpoints (difference) in forwarding order; a break
\* announced by HitBreakpoint is at an address of the current set.
C8_Breakpoints ==
    /\ ApplyAll(breakpoints, toHandle) = hist.bp_sent
    /\ (call.entered_break /\ hpc \in {"send_break_state", "send"}
          /\ break_message.type = "HitBreakpoint")
         => break_message.location \in breakpoints
    /\ (hpc = "execute" /\ ~InBreak) => instruction_pointer \notin breakpoints

\* C8 witness: ENTRY_POINT was set and removed again, everything is drained,
\* and the instruction at ENTRY_POINT executes without a break
C8_Witness ==
    /\ toHandle = <<>>
    /\ breakpoints = {ENTRY_POINT + INSTRUCTION_SIZE}
    /\ hpc = "execute"
    /\ instruction_pointer = ENTRY_POINT
    /\ ~hist.ever_broke

\* C9: the channel to the handle never holds more than CHANNEL_BOUND
\* commands; the worker's forwarding step is enabled whatever the channel
\* holds; a step changes the channel only by delivering its head or by
\* appending one command behind the unchanged queue, the latter only when it
\* is not full; so the queued commands are delivered in forwarding order.
C9_TrySend ==
    /\ [](Len(toHandle) <= CHANNEL_BOUND)
    /\ [](\A i \in 1..(Len(toHandle) - 1) : toHandle[i].n < toHandle[i + 1].n)
    /\ []((ProcessAlive /\ wpc = "requests" /\ reqLeft > 0)
            => ENABLED (\E request \in Requests : handle_request(request)))
    /\ [][ toHandle' # toHandle
             => \/ toHandle # <<>> /\ toHandle' = Tail(toHandle)
                \/ /\ Len(toHandle) < CHANNEL_BOUND
                   /\ Len(toHandle') = Len(toHandle) + 1
                   /\ SubSeq(toHandle', 1, Len(toHandle)) = toHandle ]_vars

\* C9 witness: a command was dropped on a full channel and the handle has
\* drained all CHANNEL_BOUND queued commands
C9_Witness ==
    /\ hist.dropped > 0
    /\ toHandle = <<>>
    /\ hpc = "execute"

\* C10 as stated: while the worker only processes well-formed requests the
\* handle never panics on a disconnected channel.
C10_NoPanic == hpc # "panicked"

\* C11 as stated: when the worker forwards the Terminate of the IDE while the
\* handle is in its break loop with nothing else queued, the process ends by
\* exit(0) from the break loop and never by a panic, however the worker's
\* shutdown interleaves with the handle's drain.
C11_TerminateExitsZero ==
    hist.terminate_in_break => hpc # "panicked"

\* the execution thread is suspended: it is alive and none of its steps can
\* be taken until the worker acts
Suspended == ProcessAlive /\ ~ENABLED Handle

C13_DummyRuns ==
    (~attached /\ ProcessAlive) => ENABLED <<Handle>>_vars

(***************************************************************************)
(* Properties of the processor (SpecCpu).                                  *)
(***************************************************************************)
\* the last cycle executed an instruction to its end
Executed == cpu.last.o.ok /\ cpu.result = "Normal"

\* the target of the branch o taken from the registers regs
BranchTarget(o, regs) ==
    IF o.op \in {"JumpImmediate", "JumpImmediateIfEqual", "JumpImmediateIfZero",
                 "CallAddress"}
    THEN o.immediate
    ELSE regs[o.r0]

\* the conditional branch o is taken from the registers regs
Taken(o, regs) ==
    CASE o.op = "JumpImmediateIfEqual" -> regs[o.r0] = 0
      [] o.op = "JumpRegisterIfEqual" -> regs[o.r1] = 0
      [] o.op \in {"JumpImmediateIfZero", "JumpRegisterIfZero"} -> get_flag(regs, Zero)
      [] OTHER -> TRUE

\* C14: after a non-branch opcode (Increment::Yes) has executed, the instruction
\* pointer is 8 more than before, whatever its register operands are; after a
\* taken jump it is the target, after a conditional jump not taken it is 8 more
C14_InstructionPointerAdvance ==
    Executed =>
        LET o == cpu.last.o
            before == cpu.last.registers
        IN  /\ should_increment_instruction_pointer(o.op) =>
                  registers[INSTRUCTION_POINTER] =
                      before[INSTRUCTION_POINTER] + INSTRUCTION_SIZE
            /\ o.op \in {"JumpImmediate", "JumpRegister", "JumpImmediateIfEqual",
                         "JumpImmediateIfZero", "JumpRegisterIfEqual",
                         "JumpRegisterIfZero"} =>
                  registers[INSTRUCTION_POINTER] =
                      IF Taken(o, before) THEN BranchTarget(o, before)
                      ELSE before[INSTRUCTION_POINTER] + INSTRUCTION_SIZE

\* C15: the stack is LIFO.  A push writes the pushed register at the old
\* stack pointer and leaves the stack pointer 4 higher; a pop that matches a
\* push (the stack pointer was moved by pushes and pops only) leaves the stack
\* pointer 4 lower, back where it was before that push, and returns the value
\* that push wrote
C15_StackLifo ==
    Executed =>
        LET o == cpu.last.o
            before == cpu.last.registers
        IN  /\ o.op = "PushRegister" =>
                  /\ read_data(memory, before[STACK_POINTER]) = before[o.r0]
                  /\ registers[STACK_POINTER] = before[STACK_POINTER] + WORD_SIZE
            /\ (o.op \in {"PopRegister", "Pop"} /\ cpu.last.clean /\ cpu.last.depth > 0
                /\ STACK_POINTER \notin Targets(o)) =>
                  /\ registers[STACK_POINTER] = before[STACK_POINTER] - WORD_SIZE
                  /\ registers[STACK_POINTER] = cpu.last.top.sp
                  /\ (o.op = "PopRegister" /\ o.r0 # INSTRUCTION_POINTER) =>
                        registers[o.r0] = cpu.last.top.value

\* two values were pushed and popped again: the second pop returned the first
\* value and the stack pointer is back at the start of the stack
C15_Witness ==
    /\ Executed
    /\ cpu.steps = 6
    /\ cpu.last.o.op = "PopRegister"
    /\ cpu.last.clean
    /\ cpu.last.depth = 1
    /\ cpu.shadow = <<>>
    /\ registers[0] = 1
    /\ registers[1] = 5
    /\ registers[STACK_POINTER] = STACK_START

C17_StackPointerInRange ==
    registers[STACK_POINTER] \in STACK_START..(STACK_START + STACK_SIZE)

\* C18: in every reachable state the instruction pointer is a multiple of 8
\* and indexes a slot of the instruction cache
C18_InstructionPointerAligned ==
    /\ registers[INSTRUCTION_POINTER] % INSTRUCTION_SIZE = 0
    /\ registers[INSTRUCTION_POINTER] \div INSTRUCTION_SIZE < MEMORY_SIZE \div INSTRUCTION_SIZE

\* C19: a flag mutation succeeds for any content of FLAGS and changes only
\* the bits of the flags it sets: after a divmod (which sets Zero and
\* DivideByZero) whose targets are not FLAGS, the processor has not panicked
\* and Carry and the undefined upper bits of FLAGS are as before
C19_SetFlagFrame ==
    (cpu.last.o.op = "DivmodTargetModLhsRhs" /\ FLAGS \notin Targets(cpu.last.o)) =>
        /\ cpu.result # "Panic"
        /\ registers[FLAGS] \div (2 * DivideByZero) =
               cpu.last.registers[FLAGS] \div (2 * DivideByZero)
        /\ get_flag(registers, Carry) = get_flag(cpu.last.registers, Carry)

\* C20: once halt-and-catch-fire has executed on a machine without
\* exit_on_halt the machine stays halted: a later cycle changes no register,
\* no memory word and not the cycle count, and the instruction pointer stays
\* at the halt instruction
C20_HaltLatched ==
    [][cpu.is_halted =>
          /\ cpu'.is_halted
          /\ registers' = registers
          /\ memory' = memory
          /\ cpu'.cycle_count = cpu.cycle_count
          /\ read_opcode(memory', registers'[INSTRUCTION_POINTER]).op = "HaltAndCatchFire"]_vars

\* a cycle ran while the machine was halted
C20_Witness ==
    /\ cpu.is_halted
    /\ cpu.last.was_halted
    /\ ~cpu.exit_on_halt
    /\ cpu.steps >= 3
    /\ cpu.cycle_count = 2

\* the word at the instruction pointer lies inside the memory and its top
\* halfword is not a code of the table
UnknownOpcodeAtIp ==
    /\ registers[INSTRUCTION_POINTER] >= 0
    /\ registers[INSTRUCTION_POINTER] \div WORD_SIZE + 1 < MEMORY_SIZE
    /\ ~read_opcode(memory, registers[INSTRUCTION_POINTER]).ok

\* the step returned Error and changed nothing
ErrorAndUnchanged ==
    /\ cpu'.result = "Error"
    /\ registers' = registers
    /\ memory' = memory
    /\ cpu'.cycle_count = cpu.cycle_count
    /\ cpu'.cache = cpu.cache

\* C21 as stated: whenever the 16-bit opcode at IP is not in the opcode table,
\* execute_next_instruction returns Error and leaves the registers (IP
\* included), the memory, the cycle count and the instruction cache unchanged.
C21_DecodeError ==
    [][(~cpu.is_halted /\ UnknownOpcodeAtIp) => ErrorAndUnchanged]_vars

\* C21 (amended): when the instruction cache has no executor for the slot
\* IP div 8, the fetch at IP is allowed (inside the memory, and 8-aligned in a
\* build with debug assertions) and the 16-bit opcode at IP is not in the
\* table, execute_next_instruction returns Error and leaves the registers, the
\* memory, the cycle count and the instruction cache unchanged, so that the
\* next step meets the same case.
C21_DecodeErrorOnMiss ==
    [][(/\ ~cpu.is_halted
        /\ UnknownOpcodeAtIp
        /\ registers[INSTRUCTION_POINTER] \div INSTRUCTION_SIZE \notin DOMAIN cpu.cache
        /\ instruction_access_ok(registers[INSTRUCTION_POINTER], cpu.debug_assertions))
          => ErrorAndUnchanged]_vars

\* the last of several steps returned Error at an unknown opcode
C21_Witness ==
    /\ cpu.result = "Error"
    /\ cpu.steps = MaxSteps
    /\ cpu.cycle_count > 0
    /\ UnknownOpcodeAtIp

\* C22: decoding as_instruction(op) yields op for every variant of the table
\* and every value of its register and immediate fields; two different
\* opcodes never encode to the same 64-bit word; a word whose top 16 bits are
\* not a code of the table decodes to an error.
C22_EncodingRoundTrip ==
    /\ (cpu.codec.stage = "decoded" /\ cpu.codec.opcode.ok)
         => cpu.codec.decoded = cpu.codec.opcode
    /\ (cpu.codec.stage = "instruction" /\ cpu.codec.opcode.ok)
         => \A e \in Encodings :
               e.instruction = cpu.codec.instruction => e.opcode = cpu.codec.opcode
    /\ (cpu.codec.stage = "decoded" /\ ~cpu.codec.opcode.ok)
         => ~cpu.codec.decoded.ok

\* a four-register opcode with its registers at 255 went through both ways
C22_Witness ==
    /\ cpu.codec.stage = "decoded"
    /\ cpu.codec.opcode.op = "MultiplyHighLowLhsRhs"
    /\ cpu.codec.opcode.r3 = 255
    /\ cpu.codec.opcode.r0 = 1
    /\ cpu.codec.decoded.ok

\* the number of bytes of the cell of an access
CellSize(kind) ==
    CASE kind = "instruction" -> INSTRUCTION_SIZE
      [] kind = "word" -> WORD_SIZE
      [] kind = "halfword" -> 2
      [] OTHER -> 1

\* C23: a write of W at an aligned address A followed by a read of the same
\* width at A returns W; the write changes no byte outside the written cell;
\* an instruction written at A reads back as the big-endian concatenation of
\* the words at A and A + 4.
C23_MemoryRoundTrip ==
    LET a == cpu.access
    IN  (a.kind # "none" /\ a.address % CellSize(a.kind) = 0)
          => /\ a.got = a.value
             /\ \A k \in ProbeAddresses :
                   k \notin a.address..(a.address + CellSize(a.kind) - 1)
                     => ByteAt(memory, k) = ByteAt(a.before, k)
             /\ a.kind = "instruction"
                   => /\ read_data(memory, a.address) = a.value[1]
                      /\ read_data(memory, a.address + WORD_SIZE) = a.value[2]

\* an instruction was written next to a word written before and read back
C23_Witness ==
    /\ cpu.access.kind = "instruction"
    /\ cpu.access.address = INSTRUCTION_SIZE
    /\ cpu.access.got = << 16909060, 84281096 >>
    /\ read_data(cpu.access.before, WORD_SIZE) = WORD_MAX
    /\ read_data(memory, WORD_SIZE) = WORD_MAX

\* the opcode of the last step, the registers before it, and the value a
\* register held before it
LastOp == cpu.last.o.op

Before(register) == cpu.last.registers[register]

\* registers without a role of their own
General(register) == register \notin {FLAGS, INSTRUCTION_POINTER, STACK_POINTER}

\* the operands of the add and subtract family: lhs, rhs and the carry that
\* goes in
AddSubtractOps ==
    {"AddTargetLhsRhs", "AddWithCarryTargetLhsRhs", "AddTargetSourceImmediate",
     "SubtractTargetLhsRhs", "SubtractWithCarryTargetLhsRhs",
     "SubtractTargetSourceImmediate"}

Lhs == Before(cpu.last.o.r1)

Rhs == IF Row(LastOp).operand THEN cpu.last.o.immediate ELSE Before(cpu.last.o.r2)

CarryIn ==
    IF LastOp \in {"AddWithCarryTargetLhsRhs", "SubtractWithCarryTargetLhsRhs"}
       /\ get_flag(cpu.last.registers, Carry)
    THEN 1 ELSE 0

\* the exact integer lhs + rhs + c, resp. lhs - rhs - c
ExactResult ==
    IF LastOp \in {"AddTargetLhsRhs", "AddWithCarryTargetLhsRhs", "AddTargetSourceImmediate"}
    THEN Sum(Sum(Digits(Lhs), Digits(Rhs)), Digits(CarryIn))
    ELSE Difference(Difference(Digits(Lhs), Digits(Rhs)), Digits(CarryIn))

\* C24: for add, add-immediate, add-with-carry, subtract, subtract-immediate
\* and subtract-with-carry the target receives the exact integer result modulo
\* 2^32, Carry is set iff the exact result lies outside [0, 2^32 - 1], and
\* Zero is set iff the target is 0.
C24_AddSubtract ==
    (Executed /\ LastOp \in AddSubtractOps /\ General(cpu.last.o.r0))
      => /\ registers[cpu.last.o.r0] = Truncate(ExactResult)
         /\ get_flag(registers, Carry) <=> (ExactResult[3] # 0 \/ ExactResult[4] # 0)
         /\ get_flag(registers, Zero) <=> (registers[cpu.last.o.r0] = 0)

\* the exact 64-bit product of the two source values of a multiply
ExactProduct == Product(Before(cpu.last.o.r2), Before(cpu.last.o.r3))

\* C25: for multiply-high-low with every choice of the four registers, with P
\* the exact 64-bit product of the two source values: the low register
\* receives P mod 2^32, the high register receives P div 2^32, Zero is set iff
\* P mod 2^32 = 0 and Carry is set iff P div 2^32 > 0.
C25_MultiplyHighLow ==
    (Executed /\ LastOp = "MultiplyHighLowLhsRhs")
      => /\ registers[cpu.last.o.r1] = Truncate(ExactProduct)
         /\ registers[cpu.last.o.r0] = High(ExactProduct)
         /\ get_flag(registers, Zero) <=> (Truncate(ExactProduct) = 0)
         /\ get_flag(registers, Carry) <=> (High(ExactProduct) # 0)

\* C26: for divmod with source values lhs and rhs: if rhs = 0 the quotient is
\* 0, the remainder is lhs, Zero and DivideByZero are set; otherwise
\* quotient * rhs + remainder = lhs with remainder < rhs, Zero is set iff the
\* quotient is 0 and DivideByZero is cleared; a source register that is no
\* target is unchanged; a jump-if-divide-by-zero is taken iff DivideByZero is
\* set.
C26_Divmod ==
    /\ (Executed /\ LastOp = "DivmodTargetModLhsRhs")
         => LET lhs == Before(cpu.last.o.r2)
                rhs == Before(cpu.last.o.r3)
                quotient == registers[cpu.last.o.r0]
                remainder == registers[cpu.last.o.r1]
            IN  /\ rhs = 0 => /\ quotient = 0
                              /\ remainder = lhs
                              /\ get_flag(registers, Zero)
                              /\ get_flag(registers, DivideByZero)
                /\ rhs # 0 => /\ Sum(Product(quotient, rhs), Digits(remainder)) = Digits(lhs)
                              /\ less(remainder, rhs)
                              /\ get_flag(registers, Zero) <=> (quotient = 0)
                              /\ ~get_flag(registers, DivideByZero)
                /\ \A source \in {cpu.last.o.r2, cpu.last.o.r3} :
                      source \notin {cpu.last.o.r0, cpu.last.o.r1}
                        => registers[source] = Before(source)
    /\ (Executed /\ LastOp = "JumpImmediateIfDivideByZero")
         => IF get_flag(cpu.last.registers, DivideByZero)
            THEN registers[INSTRUCTION_POINTER] = cpu.last.o.immediate
            ELSE registers[INSTRUCTION_POINTER] = Before(INSTRUCTION_POINTER) + INSTRUCTION_SIZE

ShiftOps == {"LeftShiftTargetLhsRhs", "RightShiftTargetLhsRhs"}

\* C27: for left and right shift with every shift amount s: the instruction
\* completes; if s > 32 the target is 0, Zero is set and Carry is set iff
\* lhs > 0; if 0 <= s <= 32 the target is (lhs * 2^s) mod 2^32 for left and
\* floor(lhs / 2^s) for right, Zero is set iff the target is 0, and Carry is
\* set iff s exceeds the number of leading resp. trailing zero bits of lhs.
C27_Shift ==
    (cpu.last.o.ok /\ LastOp \in ShiftOps /\ General(cpu.last.o.r0))
      => LET lhs == Before(cpu.last.o.r1)
             s == Before(cpu.last.o.r2)
             target == registers[cpu.last.o.r0]
             left == LastOp = "LeftShiftTargetLhsRhs"
         IN  /\ cpu.result = "Normal"
             /\ less(WORD_BITS, s)
                   => /\ target = 0
                      /\ get_flag(registers, Zero)
                      /\ get_flag(registers, Carry) <=> (lhs # 0)
             /\ ~less(WORD_BITS, s)
                   => /\ target = IF left THEN Truncate(ShiftLeft(lhs, s))
                                  ELSE ShiftRight(lhs, s)
                      /\ get_flag(registers, Zero) <=> (target = 0)
                      /\ get_flag(registers, Carry) <=>
                            less(IF left THEN leading_zeros(lhs) ELSE trailing_zeros(lhs), s)

\* the predicate sets of the comparison-register jumps, by the name of the
\* comparison
PredicateSet(op) ==
    CASE op \in {"JumpImmediateIfEqual", "JumpRegisterIfEqual"} -> {0}
      [] op \in {"JumpImmediateIfGreaterThan", "JumpRegisterIfGreaterThan"} -> {1}
      [] op \in {"JumpImmediateIfLessThan", "JumpRegisterIfLessThan"} -> {WORD_MAX}
      [] op \in {"JumpImmediateIfGreaterThanOrEqual",
                 "JumpRegisterIfGreaterThanOrEqual"} -> {0, 1}
      [] OTHER -> {0, WORD_MAX}

ComparisonJumps ==
    {"JumpImmediateIfEqual", "JumpRegisterIfEqual",
     "JumpImmediateIfGreaterThan", "JumpRegisterIfGreaterThan",
     "JumpImmediateIfLessThan", "JumpRegisterIfLessThan",
     "JumpImmediateIfGreaterThanOrEqual", "JumpRegisterIfGreaterThanOrEqual",
     "JumpImmediateIfLessThanOrEqual", "JumpRegisterIfLessThanOrEqual"}

\* C28: ternary compare writes MAX, 0 or 1 for lhs <, =, > rhs (unsigned) and
\* sets Zero iff the values are equal; a comparison-register jump, immediate
\* or register form, is taken iff the value of the comparison register lies
\* in its predicate set; taken sets IP to the target, not taken adds exactly 8
\* to IP, and either way the cycle count grows by exactly 1.
C28_CompareAndJump ==
    [][LET o == cpu'.last.o
           immediate == Row(o.op).operand
           comparison == registers[IF immediate THEN o.r0 ELSE o.r1]
           target == IF immediate THEN o.immediate ELSE registers[o.r0]
       IN  /\ (o.ok /\ cpu'.result = "Normal" /\ o.op = "CompareTargetLhsRhs"
                  /\ General(o.r0))
                => /\ less(registers[o.r1], registers[o.r2]) => registers'[o.r0] = WORD_MAX
                   /\ registers[o.r1] = registers[o.r2] => registers'[o.r0] = 0
                   /\ less(registers[o.r2], registers[o.r1]) => registers'[o.r0] = 1
                   /\ get_flag(registers', Zero) <=> (registers[o.r1] = registers[o.r2])
           /\ (o.ok /\ cpu'.result = "Normal" /\ o.op \in ComparisonJumps)
                => /\ registers'[INSTRUCTION_POINTER] =
                         IF comparison \in PredicateSet(o.op) THEN target
                         ELSE registers[INSTRUCTION_POINTER] + INSTRUCTION_SIZE
                   /\ cpu'.cycle_count = cpu.cycle_count + 1]_vars

\* a less-than jump in register form was taken on a comparison value of
\* 2^32 - 1
C28_Witness ==
    /\ Executed
    /\ LastOp = "JumpRegisterIfLessThan"
    /\ Before(0) = WORD_MAX
    /\ Before(1) = 65536
    /\ registers[INSTRUCTION_POINTER] = 65536
    /\ cpu.cycle_count = 1

\* the access of the given width at the address is allowed in the build
AccessAllowed(width, address, debug_assertions) ==
    CASE width = 4 -> word_access_ok(address, debug_assertions)
      [] width = 2 -> halfword_access_ok(address, debug_assertions)
      [] OTHER -> byte_access_ok(address)

\* C29: for every pointer+offset move (word, halfword and byte, load and
\* store) the accessed address is (register + immediate) mod 2^32: when the
\* access at that address is allowed the move completes, a store changes the
\* memory as a write of its width at that address does, a load writes the
\* cell at that address into its target; a sum that exceeds 2^32 - 1 wraps
\* around and is not an error.
C29_OffsetWraps ==
    [][LET o == cpu'.last.o
           move == OffsetMoves[o.op]
           address == wrapping_add(registers[IF move.store THEN o.r0 ELSE o.r1],
                                   o.immediate)
       IN  (/\ o.ok
            /\ o.op \in DOMAIN OffsetMoves
            /\ General(o.r0)
            /\ AccessAllowed(move.width, address, cpu.debug_assertions))
             => /\ cpu'.result = "Normal"
                /\ move.store
                     => memory' =
                          CASE move.width = 4 -> write_data(memory, address, registers[o.r1])
                            [] move.width = 2 ->
                                 write_halfword(memory, address, Lo(registers[o.r1]))
                            [] OTHER -> write_byte(memory, address, registers[o.r1] % 256)
                /\ ~move.store
                     => registers'[o.r0] =
                          CASE move.width = 4 -> read_data(memory, address)
                            [] move.width = 2 -> read_halfword(memory, address)
                            [] OTHER -> read_byte(memory, address)]_vars

\* the start address of the framebuffer the display shows (render)
visible_framebuffer_address(first_framebuffer_visible) ==
    IF first_framebuffer_visible THEN FIRST_FRAMEBUFFER_START
    ELSE SECOND_FRAMEBUFFER_START

\* C30: after any sequence of swap-framebuffers instructions the first
\* framebuffer is visible iff the number of swaps is even, and
\* invisible-framebuffer-address yields the start address of the framebuffer
\* that is not visible: one of the two fixed framebuffer addresses, different
\* from the visible one.
C30_FramebufferParity ==
    /\ cpu.first_framebuffer_visible <=> (cpu.swaps % 2 = 0)
    /\ (Executed /\ LastOp = "InvisibleFramebufferAddress")
         => LET yielded == registers[cpu.last.o.r0]
                visible == visible_framebuffer_address(cpu.first_framebuffer_visible)
            IN  /\ yielded \in {FIRST_FRAMEBUFFER_START, SECOND_FRAMEBUFFER_START}
                /\ yielded # visible
                /\ yielded = IF cpu.swaps % 2 = 0 THEN SECOND_FRAMEBUFFER_START
                             ELSE FIRST_FRAMEBUFFER_START

\* C30 witness: the address is asked for after three swaps, behind a first
\* request made before any of them
C30_Witness ==
    /\ Executed
    /\ LastOp = "InvisibleFramebufferAddress"
    /\ cpu.swaps = 3
    /\ ~cpu.first_framebuffer_visible
    /\ cpu.last.o.r0 = 1
    /\ registers[1] = FIRST_FRAMEBUFFER_START
    /\ registers[0] = SECOND_FRAMEBUFFER_START

\* the positions of the NUL bytes of a byte stream
Nuls(stream) == { i \in 1..Len(stream) : stream[i] = 0 }

\* the NUL-terminated pieces of a byte stream in stream order, each without
\* its NUL, and the bytes after the last NUL
Pieces(stream) ==
    [k \in 1..Cardinality(Nuls(stream)) |->
        SubSeq(stream, IF k = 1 THEN 1 ELSE Nth(Nuls(stream), k - 1) + 1,
               Nth(Nuls(stream), k) - 1)]

Rest(stream) ==
    IF Nuls(stream) = {} THEN stream
    ELSE SubSeq(stream, Nth(Nuls(stream), Cardinality(Nuls(stream))) + 1, Len(stream))

\* C31: for any byte stream and any way of splitting it into non-empty reads,
\* the segments the successive reads returned, concatenated in order, are
\* exactly the NUL-terminated pieces of the bytes read so far (each without
\* its NUL, empty pieces included), so each piece is returned by the read
\* that delivers its NUL; the bytes after the last NUL are kept in the buffer
\* for later reads, also across buffer growth.
C31_SegmentsArePieces ==
    cpu.session.stage = "reader"
      => /\ cpu.session.delivered = Pieces(cpu.session.stream)
         /\ Slice(cpu.session.reader.buffer, cpu.session.reader.next_segment_start,
                  cpu.session.reader.length) = Rest(cpu.session.stream)

\* C31 witness: a piece longer than the initial buffer was returned after the
\* buffer grew, and bytes of the next piece are waiting
C31_Witness ==
    /\ cpu.session.stage = "reader"
    /\ Len(cpu.session.reader.buffer) > INITIAL_BUFFER_SIZE
    /\ Len(cpu.session.delivered) = 1
    /\ Len(cpu.session.delivered[1]) > INITIAL_BUFFER_SIZE
    /\ Rest(cpu.session.stream) # << >>

\* C32: a segment handle is usable only until the next read or clear:
\* segment(h) returns the bytes of h when h comes from the most recent read
\* and no clear happened since (the read that returned h is the last call),
\* and panics for every handle an earlier read returned, so a stale handle
\* never yields bytes of newer data.
C32_StaleSegmentPanics ==
    [][(/\ cpu.session.stage = "reader"
        /\ cpu'.session.calls = cpu.session.calls
        /\ cpu'.session.reader = cpu.session.reader)
         => LET h == cpu'.session.asked
            IN  IF h.calls = cpu.session.calls
                THEN cpu'.session.got = [result |-> "bytes", bytes |-> h.bytes]
                ELSE cpu'.session.got.result = "panic"]_vars

\* C32 witness: a handle of an earlier read was asked for after a later read
\* that returned segments had put other bytes in its range, and panicked
C32_Witness ==
    /\ cpu.session.stage = "reader"
    /\ cpu.session.got.result = "panic"
    /\ cpu.session.asked.calls < cpu.session.calls
    /\ cpu.session.segments # << >>
    /\ cpu.session.asked.bytes # << >>
    /\ cpu.session.asked.s.range[2] <= cpu.session.reader.length
    /\ segment(cpu.session.reader, cpu.session.asked.s) # cpu.session.asked.bytes

\* C33: when a frame received from the client is not a valid JSON request,
\* the poll returns an error, the client connection is dropped and the
\* reader is cleared, the listener stays open (a later poll can accept a new
\* client), and no request of that poll, the well-formed frames before the
\* bad one in the same read included, is forwarded to the handle.
C33_BadFrame ==
    [][(/\ cpu.session.stage = "tcp"
        /\ cpu'.session.calls = cpu.session.calls + 1
        /\ \E k \in 1..Len(cpu'.session.frames) : ~from_slice(cpu'.session.frames[k]).ok)
         => /\ cpu'.session.result.kind = "Serde"
            /\ ~cpu'.session.client
            /\ cpu'.session.reader.length = 0
            /\ cpu'.session.reader.next_segment_start = 0
            /\ cpu'.session.reader.buffer_version > cpu.session.reader.buffer_version
            /\ cpu'.session.listener
            /\ toHandle' = toHandle]_vars

\* C33 witness: a poll failed on a bad frame that followed a well-formed one
\* in the same read, and nothing was forwarded
C33_Witness ==
    /\ cpu.session.stage = "tcp"
    /\ cpu.session.result.kind = "Serde"
    /\ Len(cpu.session.frames) = 2
    /\ from_slice(cpu.session.frames[1]).ok
    /\ ~from_slice(cpu.session.frames[2]).ok
    /\ ~cpu.session.client
    /\ toHandle = << >>


(***************************************************************************)
(* The terminal: terminal::render turns the terminal buffer into the 25   *)
(* strings it hands to draw_text_ex.  A String is the sequence of its     *)
(* UTF-8 bytes.                                                            *)
(***************************************************************************)
TERMINAL_CURSOR_POINTER == TERMINAL_BUFFER_START + TERMINAL_BUFFER_SIZE

\* the UTF-8 encoding of `byte as char`: the code points below 128 take one
\* byte, the code points 128..255 two
encode_utf8(byte) ==
    IF byte < 128 THEN << byte >> ELSE << 192 + (byte \div 64), 128 + (byte % 64) >>

\* the closure of the second map of render
printable_All(byte) == byte

printable(byte) == IF byte \notin 32..255 THEN 32 ELSE byte

\* (lo..hi).map(read_byte).map(printable).map(|c| c as char).collect(): the
\* string of the columns lo..hi-1 of a row, put together from its halves
RECURSIVE collect(_, _, _, _)
collect(mem, row, lo, hi) ==
    IF hi = lo + 1
    THEN encode_utf8(printable(read_byte(mem,
                         TERMINAL_BUFFER_START + row * TERMINAL_WIDTH + lo)))
    ELSE collect(mem, row, lo, (lo + hi) \div 2) \o collect(mem, row, (lo + hi) \div 2, hi)

\* str::from_utf8 on the bytes of a String: the bytes are the encoding of a
\* sequence of characters
RECURSIVE is_utf8(_)
is_utf8(bytes) ==
    IF bytes = << >> THEN TRUE
    ELSE IF bytes[1] < 128 THEN is_utf8(Tail(bytes))
    ELSE /\ bytes[1] \in 194..223
         /\ Len(bytes) >= 2
         /\ bytes[2] \in 128..191
         /\ is_utf8(Tail(Tail(bytes)))

\* the body of the loop of render for one row: the string, whether the
\* debug_assert! fails, and whether the write through as_bytes_mut leaves
\* bytes that are no UTF-8 (undefined behaviour of the unsafe block)
render_row(mem, row, cursor_row, cursor_column, visible, debug_assertions) ==
    LET string == collect(mem, row, 0, TERMINAL_WIDTH)
    IN  IF row = cursor_row /\ visible
        THEN LET bytes == [string EXCEPT ![cursor_column + 1] = 95]
             IN  [text |-> bytes,
                  panics |-> debug_assertions /\ string[cursor_column + 1] >= 128,
                  undefined |-> ~is_utf8(bytes)]
        ELSE [text |-> string, panics |-> FALSE, undefined |-> FALSE]

\* terminal::render: the texts drawn, row by row; a failed debug_assert!
\* ends the process at its row
render(mem, visible, debug_assertions) ==
    LET cursor_pointer == read_data(mem, TERMINAL_CURSOR_POINTER)
        cursor_index == cursor_pointer - TERMINAL_BUFFER_START
        \* a pointer of 2^31 and more names a row far below the last one
        cursor_row == IF cursor_index < 0 THEN TERMINAL_HEIGHT
                      ELSE cursor_index \div TERMINAL_WIDTH
        cursor_column == IF cursor_index < 0 THEN 0 ELSE cursor_index % TERMINAL_WIDTH
        rows == [row \in 1..TERMINAL_HEIGHT |->
                    render_row(mem, row - 1, cursor_row, cursor_column, visible,
                               debug_assertions)]
        stop == { row \in 1..TERMINAL_HEIGHT : rows[row].panics }
    IN  IF stop # {}
        THEN [result |-> "panic", undefined |-> FALSE,
              rows |-> [row \in 1..(cursor_row) |-> rows[row].text]]
        ELSE [result |-> "ok",
              undefined |-> \E row \in 1..TERMINAL_HEIGHT : rows[row].undefined,
              rows |-> [row \in 1..TERMINAL_HEIGHT |-> rows[row].text]]

\* what a call of render can come to: after undefined behaviour the build
\* either goes on with the bytes as written or ends the process
Renders(mem, visible, debug_assertions) ==
    LET out == render(mem, visible, debug_assertions)
    IN  IF out.undefined
        THEN { [result |-> "ok", rows |-> out.rows], [result |-> "panic", rows |-> << >>] }
        ELSE { [result |-> out.result, rows |-> out.rows] }

\* cells of the terminal buffer and bytes a program stores there
TerminalCells == { 0, 1, TERMINAL_BUFFER_SIZE - 1 }

TerminalBytes == { 31, 65, 200 }

\* values a program stores in the cursor pointer
CursorPointers == { 1, 2, TERMINAL_BUFFER_SIZE }

\* Cursor { visible } of the periphery, and what was drawn last: the texts,
\* and the memory they were drawn from
NewTerminal(visible) ==
    [stage |-> "terminal", cursor |-> [visible |-> visible], stores |-> 0,
     result |-> "none", rows |-> << >>, drawn |-> << >>]

\* Machine::new with an empty terminal and the cursor pointer at 0
InitTerminal ==
    /\ InitDetached
    /\ memory = << >>
    /\ \E visible \in BOOLEAN, debug_assertions \in BOOLEAN :
          cpu = [NewCpu(FALSE, debug_assertions) EXCEPT !.session = NewTerminal(visible)]

MayStore == cpu.session.stores < MaxStores /\ cpu.session.result # "panic"

\* the program stores a byte in the terminal buffer
terminal_store ==
    /\ MayStore
    /\ \E address \in TerminalCells, byte \in TerminalBytes :
          memory' = write_byte(memory, address, byte)
    /\ cpu' = [cpu EXCEPT !.session.stores = @ + 1]
    /\ UNCHANGED registers
    /\ UNCHANGED debugger_vars

\* the program stores a word in the cursor pointer
cursor_store ==
    /\ MayStore
    /\ \E pointer \in CursorPointers :
          memory' = write_data(memory, TERMINAL_CURSOR_POINTER, pointer)
    /\ cpu' = [cpu EXCEPT !.session.stores = @ + 1]
    /\ UNCHANGED registers
    /\ UNCHANGED debugger_vars

\* a frame: terminal::render(&memory, .., &cursor)
terminal_render ==
    /\ cpu.session.result # "panic"
    /\ \E out \in Renders(memory, cpu.session.cursor.visible, cpu.debug_assertions) :
          cpu' = [cpu EXCEPT !.session.result = out.result,
                             !.session.rows = out.rows,
                             !.session.drawn = memory]
    /\ UNCHANGED << registers, memory >>
    /\ UNCHANGED debugger_vars

NextTerminal == terminal_store \/ cursor_store \/ terminal_render

SpecTerminal == InitTerminal /\ [][NextTerminal]_vars

\* the register the instruction o writes, if it writes one
Written(o) ==
    CASE o.op \in DOMAIN BoolCompares(0, 0) \cup BitwiseOps
                  \cup {"MoveRegisterImmediate", "MoveTargetSource", "PopRegister"} -> {o.r0}
      [] o.op \in DOMAIN PlainMoves -> IF PlainMoves[o.op].store THEN {} ELSE {o.r0}
      [] o.op \in DOMAIN OffsetMoves -> IF OffsetMoves[o.op].store THEN {} ELSE {o.r0}
      [] OTHER -> {}

MovePushPop ==
    DOMAIN PlainMoves \cup DOMAIN OffsetMoves
    \cup {"MoveRegisterImmediate", "MoveTargetSource", "PushRegister", "PopRegister", "Pop"}

\* the value the target of a bool-compare holds afterwards: the 0 or 1
\* written, advanced by one instruction when the target is the instruction
\* pointer
WroteBool(target) ==
    registers[target] \in
        IF target = INSTRUCTION_POINTER
        THEN {INSTRUCTION_SIZE, INSTRUCTION_SIZE + 1}
        ELSE {0, 1}

\* the flags other than Zero
BesidesZero(regs) == << get_flag(regs, Carry), get_flag(regs, DivideByZero),
                        regs[FLAGS] \div (2 * DivideByZero) >>

\* C34 as stated: an executed bool-compare writes 0 or 1 to its target and
\* leaves FLAGS as it was; an executed and, or, xor or not leaves every bit
\* of FLAGS but Zero as it was; an executed move, push or pop whose target is
\* not FLAGS leaves FLAGS as it was.
C34_FlagFrame ==
    Executed =>
        /\ LastOp \in DOMAIN BoolCompares(0, 0)
             => /\ WroteBool(cpu.last.o.r0)
                /\ registers[FLAGS] = Before(FLAGS)
        /\ LastOp \in BitwiseOps
             => BesidesZero(registers) = BesidesZero(cpu.last.registers)
        /\ (LastOp \in MovePushPop /\ FLAGS \notin Written(cpu.last.o))
             => registers[FLAGS] = Before(FLAGS)

\* C34, amended: an executed bool-compare writes 0 or 1 to its target, and
\* leaves FLAGS as it was when FLAGS is not that target; an executed and, or,
\* xor or not whose target is not FLAGS leaves every bit of FLAGS but Zero as
\* it was; an executed move, push or pop whose target is not FLAGS leaves
\* FLAGS as it was.
C34_FlagFrameOffTarget ==
    Executed =>
        /\ LastOp \in DOMAIN BoolCompares(0, 0)
             => /\ WroteBool(cpu.last.o.r0)
                /\ FLAGS \notin Written(cpu.last.o) => registers[FLAGS] = Before(FLAGS)
        /\ (LastOp \in BitwiseOps /\ FLAGS \notin Written(cpu.last.o))
             => BesidesZero(registers) = BesidesZero(cpu.last.registers)
        /\ (LastOp \in MovePushPop /\ FLAGS \notin Written(cpu.last.o))
             => registers[FLAGS] = Before(FLAGS)

\* an and, or, xor or not into a general register has flipped Zero while
\* Carry was set
C34_Witness ==
    /\ Executed
    /\ LastOp \in BitwiseOps
    /\ General(cpu.last.o.r0)
    /\ get_flag(cpu.last.registers, Carry)
    /\ get_flag(registers, Carry)
    /\ get_flag(registers, Zero) # get_flag(cpu.last.registers, Zero)


\* the characters of a string: the code points its bytes encode, and -1 for
\* a byte that encodes none
RECURSIVE chars(_)
chars(bytes) ==
    IF bytes = << >> THEN << >>
    ELSE IF bytes[1] < 128 THEN << bytes[1] >> \o chars(Tail(bytes))
    ELSE IF bytes[1] \in 194..223 /\ Len(bytes) >= 2 /\ bytes[2] \in 128..191
    THEN << (bytes[1] - 192) * 64 + (bytes[2] - 128) >> \o chars(Tail(Tail(bytes)))
    ELSE << -1 >> \o chars(Tail(bytes))

\* the grid the terminal is to show for a memory and a cursor
Grid(mem, visible) ==
    LET cursor_index == read_data(mem, TERMINAL_CURSOR_POINTER) - TERMINAL_BUFFER_START
    IN  [row \in 1..TERMINAL_HEIGHT |->
            [column \in 1..TERMINAL_WIDTH |->
                LET index == (row - 1) * TERMINAL_WIDTH + (column - 1)
                    byte == read_byte(mem, TERMINAL_BUFFER_START + index)
                IN  IF visible /\ cursor_index = index THEN 95
                    ELSE IF byte < 32 THEN 32 ELSE byte]]

\* C35: a call of render draws 25 rows of 80 characters each: a space for a
\* byte below 32, the byte's own character otherwise, and an underscore in
\* place of the character under a visible cursor that lies in the buffer,
\* and no other character differs.
C35_TerminalRows ==
    cpu.session.stage = "terminal" /\ cpu.session.result # "none"
        => /\ cpu.session.result = "ok"
           /\ Len(cpu.session.rows) = TERMINAL_HEIGHT
           /\ \A row \in 1..TERMINAL_HEIGHT :
                 chars(cpu.session.rows[row])
                     = Grid(cpu.session.drawn, cpu.session.cursor.visible)[row]

\* the terminal rows are right whenever the row of a visible cursor holds
\* bytes below 128 only
C35_AsciiRows ==
    (/\ cpu.session.stage = "terminal"
     /\ cpu.session.result # "none"
     /\ \A address \in TerminalCells : read_byte(cpu.session.drawn, address) < 128)
        => /\ cpu.session.result = "ok"
           /\ Len(cpu.session.rows) = TERMINAL_HEIGHT
           /\ \A row \in 1..TERMINAL_HEIGHT :
                 chars(cpu.session.rows[row])
                     = Grid(cpu.session.drawn, cpu.session.cursor.visible)[row]


\* what the current call of before_instruction_execution has sent, apart
\* from the WaitForStart of its first lines
Notified ==
    IF call.sent # << >> /\ call.sent[1] = "WaitForStart" THEN Tail(call.sent)
    ELSE call.sent

\* C36: while Breaking the handle sends the BreakState snapshot and a
\* notification once per executed instruction.  A call that enters a break
\* has sent, when it reaches its break loop, one snapshot and one Pausing or
\* HitBreakpoint for the current IP; a call that starts in Breaking after an
\* executed instruction has sent one snapshot and one Breaking for the
\* current IP; a call that starts in Breaking after a call that executed
\* nothing sends nothing; and the handle is Breaking with an executed last
\* cycle between two calls only when the call before consumed a StepOne.
C36_OneNotification ==
    /\ (hpc = "breaking" /\ call.entered_break)
         => /\ Len(Notified) = 2
            /\ Notified[1] = "BreakState"
            /\ Notified[2] \in {"Pausing", "HitBreakpoint"}
            /\ hist.last_sent.type = Notified[2]
            /\ hist.last_sent.location = registers[INSTRUCTION_POINTER]
    /\ (hpc = "breaking" /\ call.start_state = "Breaking" /\ did_execute_last_cycle)
         => /\ call.sent = << "BreakState", "Breaking" >>
            /\ hist.last_sent.type = "Breaking"
            /\ hist.last_sent.location = registers[INSTRUCTION_POINTER]
    /\ (hpc \in {"breaking", "execute", "exited", "panicked"}
        /\ call.start_state = "Breaking" /\ ~did_execute_last_cycle)
         => call.sent = << >>
    /\ (hpc = "call" /\ state = "Breaking" /\ did_execute_last_cycle)
         => call.consumed = "StepOne"

\* a call that started in Breaking after a step has sent its snapshot and
\* its Breaking notification and waits in the break loop
C36_Witness ==
    /\ hpc = "breaking"
    /\ call.start_state = "Breaking"
    /\ did_execute_last_cycle
    /\ call.sent = << "BreakState", "Breaking" >>
    /\ hist.executed

\* a call that started in Breaking after a call that executed nothing waits
\* in the break loop and has sent nothing
C36_WitnessSilent ==
    /\ hpc = "breaking"
    /\ call.start_state = "Breaking"
    /\ ~did_execute_last_cycle
    /\ call.sent = << >>


\* C37: after any sequence of cycles the call stack of the handle is the
\* list, oldest first, of the addresses of the executed calls that no
\* executed return has matched.
C37_ShadowCallStack ==
    cpu.result \in {"Normal", "Halted"} => call_stack = cpu.calls


\* C38: a cache slot is filled at the first successful execution at its
\* address and never emptied or replaced: for every address where an
\* instruction has been executed the slot holds what the memory held there,
\* decoded, at the first execution, and the instruction executed last is the
\* one decoded at the first execution at its address.
C38_CacheFrozen ==
    /\ \A address \in DOMAIN cpu.first :
          /\ address \div INSTRUCTION_SIZE \in DOMAIN cpu.cache
          /\ cpu.cache[address \div INSTRUCTION_SIZE] = cpu.first[address]
    /\ (cpu.last.o.ok /\ cpu.result \in {"Normal", "Halted"})
         => cpu.last.o = cpu.first[Before(INSTRUCTION_POINTER)]

\* the same for the addresses that are multiples of the instruction size
C38_AlignedCacheFrozen ==
    /\ \A address \in DOMAIN cpu.first :
          address % INSTRUCTION_SIZE = 0
            => /\ address \div INSTRUCTION_SIZE \in DOMAIN cpu.cache
               /\ cpu.cache[address \div INSTRUCTION_SIZE] = cpu.first[address]
    /\ (/\ cpu.last.o.ok
        /\ cpu.result \in {"Normal", "Halted"}
        /\ Before(INSTRUCTION_POINTER) % INSTRUCTION_SIZE = 0)
         => cpu.last.o = cpu.first[Before(INSTRUCTION_POINTER)]

\* an instruction ran from the cache at an address whose memory has since
\* been overwritten
C38_StaleRun ==
    /\ cpu.last.o.ok
    /\ cpu.result \in {"Normal", "Halted"}
    /\ Before(INSTRUCTION_POINTER) % INSTRUCTION_SIZE = 0
    /\ cpu.last.o # read_opcode(memory, Before(INSTRUCTION_POINTER))
    /\ cpu.last.o = cpu.first[Before(INSTRUCTION_POINTER)]
    /\ cpu.last.o.op \in {"CallAddress", "NoOp"}


\* C39: the state of the handle never becomes WaitingForStart again and
\* leaves WaitingForStart for Running only; it goes from Running to Breaking
\* only in a call where a pause is pending or the IP is a breakpoint, and
\* from Breaking to Running only in a call that consumes a Continue; an
\* instruction executes in a call that ends in Breaking only if that call
\* consumed a StepOne.
C39_StateMoves ==
    [][/\ state' = "WaitingForStart" => state = "WaitingForStart"
       /\ (state = "WaitingForStart" /\ state' # state) => state' = "Running"
       /\ (state = "Running" /\ state' = "Breaking")
            => (should_pause \/ instruction_pointer \in breakpoints)
       /\ (state = "Breaking" /\ state' = "Running")
            => call'.consumed = "Continue"
       /\ (hpc = "execute" /\ hpc' = "call" /\ state' = "Breaking")
            => call.consumed = "StepOne"]_vars

\* the handle has been Breaking, a Continue was consumed, the instruction
\* was executed and the handle is Running
C39_Witness ==
    /\ hpc = "call"
    /\ state = "Running"
    /\ hist.ever_broke
    /\ call.consumed = "Continue"
    /\ did_execute_last_cycle
    /\ hist.executed


\* C40: a Continue or StepOne that the handle drained while it was not
\* Breaking is never acted on: while the handle is Breaking no such command
\* is in receive_cache, and the command the break loop acts on was drained
\* after the break was entered.
C40_StaleCommandsDropped ==
    [][/\ state' = "Breaking"
            => \A i \in 1..Len(receive_cache') : receive_cache'[i].n \notin hist'.stale
       /\ (hist'.last_acted # hist.last_acted /\ call'.consumed \in {"Continue", "StepOne"})
            => hist'.last_acted \notin hist.stale]_vars

\* the break loop has acted on a Continue or StepOne drained in the break,
\* after an earlier Continue or StepOne was drained while Running and
\* dropped
C40_Witness ==
    /\ hist.ever_broke
    /\ call.consumed \in {"Continue", "StepOne"}
    /\ hist.last_acted \notin hist.stale
    /\ \E k \in hist.stale : k < hist.last_acted

====
